---- MODULE Spec2Model ----
(***************************************************************************)
(* Akari puzzle generation: the layout sampler, the structural validator,  *)
(* the heuristic quality filter, the generation loop and the batch         *)
(* orchestrator of akari_generator.py (database version, "db") and         *)
(* akari_generator_api.py (API version, "api").                            *)
(*                                                                         *)
(* Cells.  Python's integer 0 (an empty cell) is written "." here, because *)
(* TLC cannot compare an integer with a string; the wall is "X" and a      *)
(* numbered wall is its digit string "0".."4", as in the source.  Grids    *)
(* are sequences of rows, indexed 1..size where the source uses            *)
(* 0..size-1: layout[y][x] in the source is layout[y+1][x+1] here.         *)
(***************************************************************************)
EXTENDS Integers, Sequences, FiniteSets, Bags, TLC

EMPTY == "."
WALL == "X"
Digits == {"0", "1", "2", "3", "4", "5", "6", "7", "8", "9"}
\* str.isdigit() on the cell kinds the model draws from
isdigit(cell) == cell \in Digits
\* int(cell) for a digit string
DigitValue == [c \in Digits |-> CASE c = "0" -> 0 [] c = "1" -> 1 [] c = "2" -> 2
                                  [] c = "3" -> 3 [] c = "4" -> 4 [] c = "5" -> 5
                                  [] c = "6" -> 6 [] c = "7" -> 7 [] c = "8" -> 8
                                  [] c = "9" -> 9]
int(cell) == DigitValue[cell]
\* str(number) for 0..9
str(n) == CHOOSE c \in Digits : DigitValue[c] = n

Min(a, b) == IF a < b THEN a ELSE b

(***************************************************************************)
(* generate_seed: json.dumps(layout, sort_keys=True), UTF-8 encoded, MD5,  *)
(* first 12 characters of the hex digest.  Bytes are integers 0..255; a    *)
(* 32-bit word is a pair <<high 16 bits, low 16 bits>> so that no          *)
(* intermediate value exceeds 2^31 - 1.                                    *)
(***************************************************************************)
RECURSIVE Flatten(_)
Flatten(ss) == IF ss = << >> THEN << >> ELSE Head(ss) \o Flatten(Tail(ss))

\* json.dumps of one cell: the integer 0 is 0, a string is quoted
JsonCell(cell) ==
  IF cell = EMPTY THEN <<48>>
  ELSE IF cell = WALL THEN <<34, 88, 34>>
  ELSE IF cell \in Digits THEN <<34, 48 + DigitValue[cell], 34>>
  ELSE <<34, 89, 34>>

\* json.dumps of a list: "[" items joined by ", " "]"
JsonList(items) ==
  <<91>> \o Flatten([i \in 1..Len(items) |->
                       IF i = 1 THEN items[i] ELSE <<44, 32>> \o items[i]]) \o <<93>>

json_dumps(layout) ==
  JsonList([y \in 1..Len(layout) |->
              JsonList([x \in 1..Len(layout[y]) |-> JsonCell(layout[y][x])])])

W16 == 65536

\* bitwise and / exclusive or of two bytes, bit by bit, tabulated once
RECURSIVE And8(_, _)
And8(a, b) == IF a = 0 \/ b = 0 THEN 0
              ELSE (a % 2) * (b % 2) + 2 * And8(a \div 2, b \div 2)
RECURSIVE Xor8(_, _)
Xor8(a, b) == IF a = 0 THEN b ELSE IF b = 0 THEN a
              ELSE ((a + b) % 2) + 2 * Xor8(a \div 2, b \div 2)
AndTable == [a \in 0..255 |-> [b \in 0..255 |-> And8(a, b)]]
XorTable == [a \in 0..255 |-> [b \in 0..255 |-> Xor8(a, b)]]
And16(a, b) == 256 * AndTable[a \div 256][b \div 256] + AndTable[a % 256][b % 256]
Xor16(a, b) == 256 * XorTable[a \div 256][b \div 256] + XorTable[a % 256][b % 256]
Or16(a, b) == a + b - And16(a, b)
Not16(a) == (W16 - 1) - a

WAnd(u, v) == <<And16(u[1], v[1]), And16(u[2], v[2])>>
WOr(u, v) == <<Or16(u[1], v[1]), Or16(u[2], v[2])>>
WXor(u, v) == <<Xor16(u[1], v[1]), Xor16(u[2], v[2])>>
WNot(u) == <<Not16(u[1]), Not16(u[2])>>
\* addition modulo 2^32
WAdd(u, v) ==
  LET lo == u[2] + v[2]
      hi == u[1] + v[1] + (lo \div W16)
  IN  <<hi % W16, lo % W16>>

\* 2^n for n = 0..16
Pow2(n) == <<1, 2, 4, 8, 16, 32, 64, 128, 256, 512, 1024, 2048, 4096, 8192,
             16384, 32768, 65536>>[n + 1]

\* rotate left by s bits, 0 < s < 32
WRotl(u, s) ==
  LET v == IF s >= 16 THEN <<u[2], u[1]>> ELSE u
      r == IF s >= 16 THEN s - 16 ELSE s
      p == Pow2(r)
      q == Pow2(16 - r)
  IN  IF r = 0 THEN v
      ELSE <<((v[1] * p) % W16) + (v[2] \div q), ((v[2] * p) % W16) + (v[1] \div q)>>

\* floor(2^32 * abs(sin(i + 1))) for i = 0..63
MD5K ==
  <<  <<55146, 42104>>, <<59591, 46934>>, <<9248, 28891>>, <<49597, 52974>>,
      <<62844, 4015>>, <<18311, 50730>>, <<43056, 17939>>, <<64838, 38145>>,
      <<27008, 39128>>, <<35652, 63407>>, <<65535, 23473>>, <<35164, 55230>>,
      <<27536, 4386>>, <<64920, 29075>>, <<42617, 17294>>, <<18868, 2081>>,
      <<63006, 9570>>, <<49216, 45888>>, <<9822, 23121>>, <<59830, 51114>>,
      <<54831, 4189>>, <<580, 5203>>, <<55457, 59009>>, <<59347, 64456>>,
      <<8673, 52710>>, <<49975, 2006>>, <<62677, 3463>>, <<17754, 5357>>,
      <<43491, 59653>>, <<64751, 41976>>, <<26479, 729>>, <<36138, 19594>>,
      <<65530, 14658>>, <<34673, 63105>>, <<28061, 24866>>, <<64997, 14348>>,
      <<42174, 59972>>, <<19422, 53161>>, <<63163, 19296>>, <<48831, 48240>>,
      <<10395, 32454>>, <<60065, 10234>>, <<54511, 12421>>, <<1160, 7429>>,
      <<55764, 53305>>, <<59099, 39397>>, <<8098, 31992>>, <<50348, 22117>>,
      <<62505, 8772>>, <<17194, 65431>>, <<43924, 9127>>, <<64659, 41017>>,
      <<25947, 22979>>, <<36620, 52370>>, <<65519, 62589>>, <<34180, 24017>>,
      <<28584, 32335>>, <<65068, 59104>>, <<41729, 17172>>, <<19976, 4513>>,
      <<63315, 32386>>, <<48442, 62005>>, <<10967, 53947>>, <<60294, 54161>>  >>

\* per-round left-rotation amounts
MD5S ==
  <<7, 12, 17, 22, 7, 12, 17, 22, 7, 12, 17, 22, 7, 12, 17, 22,
    5, 9, 14, 20, 5, 9, 14, 20, 5, 9, 14, 20, 5, 9, 14, 20,
    4, 11, 16, 23, 4, 11, 16, 23, 4, 11, 16, 23, 4, 11, 16, 23,
    6, 10, 15, 21, 6, 10, 15, 21, 6, 10, 15, 21, 6, 10, 15, 21>>

MD5Init == << <<26437, 8961>>, <<61389, 43913>>, <<39098, 56574>>, <<4146, 21622>> >>

\* the message followed by 0x80, zeros up to 56 mod 64, and the bit length
\* as a 64-bit little-endian integer (the messages here are under 8192 bytes)
MD5Pad(msg) ==
  LET n == Len(msg)
      z == (119 - (n % 64)) % 64
      bits == 8 * n
  IN  msg \o <<128>> \o [i \in 1..z |-> 0]
          \o <<bits % 256, bits \div 256, 0, 0, 0, 0, 0, 0>>

\* the j-th (0..15) little-endian word of block b (0-based) of the padded message
MD5Word(p, b, j) ==
  LET o == 64 * b + 4 * j
  IN  <<p[o + 3] + 256 * p[o + 4], p[o + 1] + 256 * p[o + 2]>>

\* the round function of operation i on the words B, C, D
MD5F(i, B, C, D) ==
  IF i < 16 THEN WOr(WAnd(B, C), WAnd(WNot(B), D))
  ELSE IF i < 32 THEN WOr(WAnd(D, B), WAnd(WNot(D), C))
  ELSE IF i < 48 THEN WXor(B, WXor(C, D))
  ELSE WXor(C, WOr(B, WNot(D)))

\* the index of the message word operation i reads
MD5G(i) ==
  IF i < 16 THEN i
  ELSE IF i < 32 THEN (5 * i + 1) % 16
  ELSE IF i < 48 THEN (3 * i + 5) % 16
  ELSE (7 * i) % 16

\* one of the 64 operations on s = <<A, B, C, D>>.  Every intermediate word
\* is bound as a value before it is used, so that it is computed once.
MD5Step(s, i, p, b) ==
  CHOOSE r \in
    { <<s[4], WAdd(s[2], rot), s[2], s[3]>> :
        rot \in { WRotl(t, MD5S[i + 1]) :
                    t \in { WAdd(fa, kw) :
                              fa \in { WAdd(f, s[1]) : f \in {MD5F(i, s[2], s[3], s[4])} },
                              kw \in { WAdd(MD5K[i + 1], w) : w \in {MD5Word(p, b, MD5G(i))} } } } } :
    TRUE

\* operations i..n-1 on block b
RECURSIVE MD5Ops(_, _, _, _, _)
MD5Ops(s, i, n, p, b) ==
  IF i = n THEN s
  ELSE CHOOSE r \in { MD5Ops(t, j, n, p, b) : t \in {MD5Step(s, i, p, b)}, j \in {i + 1} } : TRUE

\* the four rounds of 16 operations on block b
MD5Rounds(s, p, b) ==
  CHOOSE r \in
    { MD5Ops(s3, 48, 64, p, b) :
        s3 \in { MD5Ops(s2, 32, 48, p, b) :
                   s2 \in { MD5Ops(s1, 16, 32, p, b) :
                              s1 \in {MD5Ops(s, 0, 16, p, b)} } } } : TRUE

RECURSIVE MD5Blocks(_, _, _)
MD5Blocks(s, p, b) ==
  IF 64 * b >= Len(p) THEN s
  ELSE CHOOSE t \in
         { MD5Blocks(u, p, c) :
             u \in { <<WAdd(s[1], r[1]), WAdd(s[2], r[2]), WAdd(s[3], r[3]), WAdd(s[4], r[4])>> :
                       r \in {MD5Rounds(s, p, b)} },
             c \in {b + 1} } : TRUE

HexChars == <<"0", "1", "2", "3", "4", "5", "6", "7", "8", "9",
              "a", "b", "c", "d", "e", "f">>
HexByte(v) == HexChars[(v \div 16) + 1] \o HexChars[(v % 16) + 1]
\* the 8 hex characters of a word, least significant byte first
HexWord(u) == HexByte(u[2] % 256) \o HexByte(u[2] \div 256)
              \o HexByte(u[1] % 256) \o HexByte(u[1] \div 256)

md5_hexdigest(msg) ==
  CHOOSE h \in
    { HexWord(s[1]) \o HexWord(s[2]) \o HexWord(s[3]) \o HexWord(s[4]) :
        s \in { MD5Blocks(MD5Init, p, 0) : p \in {MD5Pad(msg)} } } : TRUE


(***************************************************************************)
(* Grid helpers and the checks of both generator classes.  Float           *)
(* comparisons of the source are written with integers: w > total * 0.85   *)
(* is w * 100 > total * 85, w / total < 0.15 is w * 100 < 15 * total, and  *)
(* so on; for every size up to 4 the two agree on every count.             *)
(***************************************************************************)
Positions(size) == (1..size) \X (1..size)

\* sum(1 for row in layout for cell in row if cell == 0)
white_cells(layout, size) ==
  Cardinality({q \in Positions(size) : layout[q[2]][q[1]] = EMPTY})
\* sum(1 for row in layout for cell in row if cell == 'X')
wall_cells(layout, size) ==
  Cardinality({q \in Positions(size) : layout[q[2]][q[1]] = WALL})
\* the positions <<x, y>> with isinstance(cell, str) and cell.isdigit()
numbered_cells(layout, size) ==
  {q \in Positions(size) : isdigit(layout[q[2]][q[1]])}

\* the neighbours (x + dx, y + dy) inside the grid
Neighbours(x, y, size) ==
  {q \in {<<x - 1, y>>, <<x + 1, y>>, <<x, y - 1>>, <<x, y + 1>>} :
     q[1] >= 1 /\ q[1] <= size /\ q[2] >= 1 /\ q[2] <= size}

\* count_adjacent_whites without its test layout[ny][nx] == 0
count_adjacent_cells(layout, x, y, size) ==
  Cardinality(Neighbours(x, y, size))

count_adjacent_whites(layout, x, y, size) ==
  Cardinality({q \in Neighbours(x, y, size) : layout[q[2]][q[1]] = EMPTY})

\* is_valid_akari_layout with 0 <= int(cell) < 4 in its first loop
is_valid_akari_layout_below4(layout, size) ==
  /\ \A q \in Positions(size) :
       LET cell == layout[q[2]][q[1]]
       IN  cell \in {EMPTY, WALL} \/ (isdigit(cell) /\ 0 <= int(cell) /\ int(cell) < 4)
  /\ \A q \in Positions(size) :
       LET cell == layout[q[2]][q[1]]
       IN  isdigit(cell) => ~(int(cell) > 4)

is_valid_akari_layout(layout, size) ==
  /\ \A q \in Positions(size) :
       LET cell == layout[q[2]][q[1]]
       IN  cell \in {EMPTY, WALL} \/ (isdigit(cell) /\ 0 <= int(cell) /\ int(cell) <= 4)
  /\ \A q \in Positions(size) :
       LET cell == layout[q[2]][q[1]]
       IN  isdigit(cell) => ~(int(cell) > 4)

\* akari_generator.py
is_solvable_db(layout, size) ==
  /\ ~(white_cells(layout, size) < size)
  /\ \A q \in numbered_cells(layout, size) :
       ~(int(layout[q[2]][q[1]]) > count_adjacent_whites(layout, q[1], q[2], size))

\* _has_connected_white_cells without the comparison with min_connection_ratio
_has_connected_white_cells_any(layout, size) ==
  {q \in Positions(size) : layout[q[2]][q[1]] = EMPTY} # {}

_has_connected_white_cells(layout, size) ==
  LET white_positions == {q \in Positions(size) : layout[q[2]][q[1]] = EMPTY}
      connected_whites ==
        Cardinality({q \in white_positions :
                       \E n \in Neighbours(q[1], q[2], size) : isdigit(layout[n[2]][n[1]])})
      \* min_connection_ratio = 0.2 if size <= 6 else 0.3, in tenths
      min_connection_tenths == IF size <= 6 THEN 2 ELSE 3
  IN  /\ white_positions # {}
      /\ connected_whites * 10 >= Cardinality(white_positions) * min_connection_tenths

\* _has_interesting_structure without the test total_numbered > size * 2
_has_interesting_structure_uncapped(layout, size) ==
  LET numbered == numbered_cells(layout, size)
      number_counts == {int(layout[q[2]][q[1]]) : q \in numbered}
      has_higher_numbers == \E num \in number_counts : num >= 2
      total_numbered == Cardinality(numbered)
  IN  /\ ~(Cardinality(number_counts) < 1)
      /\ ~(size >= 8 /\ ~has_higher_numbers)
      /\ ~(total_numbered < 1)

_has_interesting_structure(layout, size) ==
  LET numbered == numbered_cells(layout, size)
      number_counts == {int(layout[q[2]][q[1]]) : q \in numbered}
      has_higher_numbers == \E num \in number_counts : num >= 2
      total_numbered == Cardinality(numbered)
  IN  /\ ~(Cardinality(number_counts) < 1)
      /\ ~(size >= 8 /\ ~has_higher_numbers)
      /\ ~(total_numbered < 1 \/ total_numbered > size * 2)

\* is_solvable_api without the test white_cells < size
is_solvable_api_nofloor(layout, size) ==
  LET white == white_cells(layout, size)
      total_cells == size * size
      numbered == numbered_cells(layout, size)
      wall == wall_cells(layout, size)
  IN  /\ ~(white * 100 > total_cells * 85)
      /\ ~(Cardinality(numbered) = 0)
      /\ \A q \in numbered :
           LET number == int(layout[q[2]][q[1]])
               adjacent_whites == count_adjacent_whites(layout, q[1], q[2], size)
           IN  /\ ~(number > adjacent_whites)
               /\ ~(number = 0 /\ adjacent_whites > 0)
      /\ _has_connected_white_cells(layout, size)
      /\ ~(wall * 100 < 5 * total_cells \/ wall * 2 > total_cells)
      /\ _has_interesting_structure(layout, size)

\* akari_generator_api.py
is_solvable_api(layout, size) ==
  LET white == white_cells(layout, size)
      total_cells == size * size
      numbered == numbered_cells(layout, size)
      wall == wall_cells(layout, size)
  IN  /\ ~(white < size)
      /\ ~(white * 100 > total_cells * 85)
      /\ ~(Cardinality(numbered) = 0)
      /\ \A q \in numbered :
           LET number == int(layout[q[2]][q[1]])
               adjacent_whites == count_adjacent_whites(layout, q[1], q[2], size)
           IN  /\ ~(number > adjacent_whites)
               /\ ~(number = 0 /\ adjacent_whites > 0)
      /\ _has_connected_white_cells(layout, size)
      /\ ~(wall * 100 < 5 * total_cells \/ wall * 2 > total_cells)
      /\ _has_interesting_structure(layout, size)

\* _validate_puzzle_quality without the tests of white_cells per difficulty
_validate_puzzle_quality_numbers_only(layout, size, difficulty) ==
  LET wall == wall_cells(layout, size)
      numbered == numbered_cells(layout, size)
      total_cells == size * size
      numbers == {int(layout[q[2]][q[1]]) : q \in numbered}
  IN  /\ difficulty = "easy" => ~(Cardinality(numbered) < 1)
      /\ difficulty = "medium" => ~(Cardinality(numbered) < 2)
      /\ difficulty = "hard" => ~(Cardinality(numbered) < 3)
      /\ difficulty = "expert" => ~(Cardinality(numbered) < 4)
      /\ ~(size >= 8 /\ Cardinality(numbers) < 2)
      /\ ~(wall * 100 < 15 * total_cells \/ wall * 2 > total_cells)

\* _validate_puzzle_quality with the minima of numbered_cells in reverse order
_validate_puzzle_quality_reversed(layout, size, difficulty) ==
  LET white == white_cells(layout, size)
      wall == wall_cells(layout, size)
      numbered == numbered_cells(layout, size)
      total_cells == size * size
      numbers == {int(layout[q[2]][q[1]]) : q \in numbered}
  IN  /\ difficulty = "easy" =>
           ~(white * 2 < total_cells \/ Cardinality(numbered) < 4)
      /\ difficulty = "medium" =>
           ~(white * 10 < total_cells * 4 \/ Cardinality(numbered) < 3)
      /\ difficulty = "hard" =>
           ~(white * 10 < total_cells * 3 \/ Cardinality(numbered) < 2)
      /\ difficulty = "expert" =>
           ~(white * 4 < total_cells \/ Cardinality(numbered) < 1)
      /\ ~(size >= 8 /\ Cardinality(numbers) < 2)
      /\ ~(wall * 100 < 15 * total_cells \/ wall * 2 > total_cells)

_validate_puzzle_quality(layout, size, difficulty) ==
  LET white == white_cells(layout, size)
      wall == wall_cells(layout, size)
      numbered == numbered_cells(layout, size)
      total_cells == size * size
      numbers == {int(layout[q[2]][q[1]]) : q \in numbered}
  IN  /\ difficulty = "easy" =>
           ~(white * 2 < total_cells \/ Cardinality(numbered) < 1)
      /\ difficulty = "medium" =>
           ~(white * 10 < total_cells * 4 \/ Cardinality(numbered) < 2)
      /\ difficulty = "hard" =>
           ~(white * 10 < total_cells * 3 \/ Cardinality(numbered) < 3)
      /\ difficulty = "expert" =>
           ~(white * 4 < total_cells \/ Cardinality(numbered) < 4)
      /\ ~(size >= 8 /\ Cardinality(numbers) < 2)
      /\ ~(wall * 100 < 15 * total_cells \/ wall * 2 > total_cells)

\* PassesChecks without the call of _validate_puzzle_quality
PassesChecksNoQuality(gen, layout, size, difficulty) ==
  IF gen = "db"
  THEN is_valid_akari_layout(layout, size) /\ is_solvable_db(layout, size)
  ELSE /\ is_valid_akari_layout(layout, size)
       /\ is_solvable_api(layout, size)

\* the condition of the if in generate_puzzle, for either class
PassesChecks(gen, layout, size, difficulty) ==
  IF gen = "db"
  THEN is_valid_akari_layout(layout, size) /\ is_solvable_db(layout, size)
  ELSE /\ is_valid_akari_layout(layout, size)
       /\ is_solvable_api(layout, size)
       /\ _validate_puzzle_quality(layout, size, difficulty)

(***************************************************************************)
(* generate_random_layout: the set of grids the sampler can return.        *)
(* wall_ratio and number_ratio lie strictly between 0 and 1 for every      *)
(* difficulty, so each random() < ratio test can go either way.            *)
(***************************************************************************)
\* the grid after the wall pass, for the set walls of wall positions
WallLayout(walls, size) ==
  [y \in 1..size |-> [x \in 1..size |-> IF <<x, y>> \in walls THEN WALL ELSE EMPTY]]

\* the least number the class draws: random.randint(0, ..) in
\* akari_generator.py, random.randint(1, ..) in akari_generator_api.py
randint_low(gen) == IF gen = "db" THEN 0 ELSE 1

\* what the number pass can leave in cell <<x, y>> of the walled grid: a wall
\* with adjacent whites keeps 'X' or takes str(randint(low, min(whites, 4)))
CellOutcomes(gen, walled, x, y, size) ==
  IF walled[y][x] # WALL THEN {EMPTY}
  ELSE LET adjacent_whites == count_adjacent_whites(walled, x, y, size)
       IN  IF adjacent_whites > 0
           THEN {WALL} \cup {str(k) : k \in randint_low(gen)..Min(adjacent_whites, 4)}
           ELSE {WALL}

\* the rows the number pass can make of row y
RECURSIVE RowOutcomes(_, _, _, _, _)
RowOutcomes(gen, walled, y, x, size) ==
  IF x = 0 THEN {<< >>}
  ELSE {Append(r, c) : r \in RowOutcomes(gen, walled, y, x - 1, size),
                       c \in CellOutcomes(gen, walled, x, y, size)}

RECURSIVE GridOutcomes(_, _, _, _)
GridOutcomes(gen, walled, y, size) ==
  IF y = 0 THEN {<< >>}
  ELSE {Append(g, r) : g \in GridOutcomes(gen, walled, y - 1, size),
                       r \in RowOutcomes(gen, walled, y, size, size)}

generate_random_layout(gen, size) ==
  UNION {GridOutcomes(gen, WallLayout(walls, size), size, size) :
           walls \in SUBSET Positions(size)}


(***************************************************************************)
(* generate_seed.  The digests of the grids of the sides in LoopSizes are  *)
(* tabulated once, so that the generation loop does not hash the same grid *)
(* again at every attempt; any other grid is hashed where it is used.      *)
(***************************************************************************)
SeedLen == 12
\* HashedSeed for hexdigest()[:2]
HashedSeedShort(layout) == SubSeq(md5_hexdigest(json_dumps(layout)), 1, 2)
\* hashlib.md5(json.dumps(layout, sort_keys=True).encode()).hexdigest()[:12]
HashedSeed(layout) == SubSeq(md5_hexdigest(json_dumps(layout)), 1, SeedLen)

\* the sizes the generation loop is explored for
LoopSizes == {1, 2}

SeedMemo ==
  [l \in UNION {generate_random_layout("db", n) \cup generate_random_layout("api", n) :
                  n \in LoopSizes} |-> HashedSeed(l)]

generate_seed(layout) ==
  IF Len(layout) \in LoopSizes /\ layout \in DOMAIN SeedMemo
  THEN SeedMemo[layout] ELSE HashedSeed(layout)

(***************************************************************************)
(* generate_puzzle                                                         *)
(***************************************************************************)
Modules == {"db", "api"}
Difficulties == {"easy", "medium", "hard", "expert"}
\* a difficulty that is no key of difficulty_params
UnknownDifficulty == "extreme"
DifficultyInputs == Difficulties \cup {UnknownDifficulty}

\* difficulty_params[...]['max_attempts'] of akari_generator.py
max_attempts_db ==
  [d \in Difficulties |-> CASE d = "easy" -> 50 [] d = "medium" -> 100
                            [] d = "hard" -> 200 [] d = "expert" -> 300]
\* difficulty_params[...]['max_attempts'] of akari_generator_api.py
max_attempts_api ==
  [d \in Difficulties |-> CASE d = "easy" -> 100 [] d = "medium" -> 150
                            [] d = "hard" -> 200 [] d = "expert" -> 300]

\* params_key with the first entry of difficulty_params as the default
params_key_first(difficulty) == IF difficulty \in Difficulties THEN difficulty ELSE "easy"

\* params = difficulty_params.get(difficulty, difficulty_params['medium'])
params_key(difficulty) == IF difficulty \in Difficulties THEN difficulty ELSE "medium"

max_attempts(gen, difficulty) ==
  IF gen = "db" THEN max_attempts_db[params_key(difficulty)]
  ELSE max_attempts_api[params_key(difficulty)]

\* the value generate_puzzle returns when every attempt was rejected
None == [none |-> TRUE]
NoLayout == << >>

\* Puzzle with the seed taken from the grid as it was before the wall pass
PuzzleBlankSeed(layout, size, difficulty) ==
  [layout |-> layout, seed |-> generate_seed(WallLayout({}, size)), size |-> size,
   difficulty |-> difficulty]

\* Puzzle with the difficulty the parameters were read with
PuzzleKeyLabel(layout, size, difficulty) ==
  [layout |-> layout, seed |-> generate_seed(layout), size |-> size,
   difficulty |-> params_key(difficulty)]

\* the dict generate_puzzle returns for an accepted layout
Puzzle(layout, size, difficulty) ==
  [layout |-> layout, seed |-> generate_seed(layout), size |-> size,
   difficulty |-> difficulty]

VARIABLES
  generator,       \* "db": AkariPuzzleGenerator, "api": AkariPuzzleGeneratorAPI
  pc,              \* where the running method is
  \* generate_puzzle
  arg_size,        \* its argument size
  arg_difficulty,  \* its argument difficulty
  attempts,        \* the iterations of the attempt loop begun so far
  sampled,         \* the local layout: the grid the sampler returned last
  returned,        \* the value the call returned, once pc = "returned"
  \* is_valid_akari_layout
  grid,            \* its argument layout
  grid_size,       \* its argument size
  verdict,         \* the value it returned, once pc = "validated"
  \* generate_batch
  sizes,           \* its argument sizes
  difficulties,    \* its argument difficulties
  count_per_size,  \* its argument count_per_size
  arg_mode,        \* its argument mode
  i_size,          \* how many elements of sizes the outer loop has taken
  i_difficulty,    \* how many elements of difficulties the middle loop has taken
  i_count,         \* how many iterations of range(count_per_size) are done
  results,         \* the dict results
  all_puzzles,     \* the list all_puzzles of the API class
  tally,           \* what happened so far: the calls of generate_puzzle per
                   \* iteration of the cross product, the None returns, the
                   \* accepted puzzles per size and per difficulty, the failed saves
  payload,         \* the list 'puzzles' of the body send_puzzles_to_api posted
  \* generate_ebook_puzzles
  ebook_puzzles,   \* its list ebook_puzzles
  \* save_puzzle_to_db
  connection,      \* self.connection: "none" until connect_db succeeds, then "open"
                   \* or "lost" (is_connected() is False)
  table,           \* the bag of rows of the table puzzles, as the connection sees it
  save_call,       \* the arguments puzzle_data, mode and date of the call
  save_result,     \* what the call returned, or Raised
  \* generate_seed on two grids
  first_grid,      \* the layout of the first call
  second_grid,     \* the layout of the second call
  seeds,           \* the two strings returned
  \* one attempt of generate_puzzle, call by call
  evaluated,       \* the calls the attempt has made so far, with what they returned
  \* save_puzzle_to_db in two generators at once
  instance_pc,     \* where each of the two calls is
  uncommitted,     \* the rows each connection has inserted and not committed
  returns,         \* what each call returned, or Raised
  \* generate_batch, call by call
  call_log,        \* the calls of generate_puzzle, save_puzzle_to_db and
                   \* send_puzzles_to_api made so far, in order, with their results
  \* the HTML ebook job service (rpi_html_ebook_api.py)
  active_jobs,     \* api.active_jobs: job_id -> status and age of its timestamp
  posts,           \* the POSTs to /api/html_ebook_generator: the request, where
                   \* its handler is, and its answer
  job_threads,     \* the threads started with target generate_html_ebook
  notifications,   \* the calls of notify_completion, with the status they read
  removed_jobs,    \* the entries cleanup_old_files has deleted from active_jobs
  \* run_polling_loop of the two polling clients
  poll_client,     \* the module: "rpi_polling_client" or "rpi_polling_client_fixed"
  poll_pc,         \* where the loop is
  command_data,    \* what check_for_commands returned in this iteration
  executions,      \* the calls of execute_command in this iteration
  sends,           \* the calls of send_command_result in this iteration
  polls,           \* the calls of check_for_commands so far
  loop_end,        \* the exception that ended the loop
  \* a request to the admin API server (rpi_api_server.py)
  request,         \* its handler, its Authorization header, its body
  response,        \* the status code of the answer
  body_read,       \* whether the handler read the body
  started,         \* the commands of the background threads started
  invoked          \* the methods get_status, get_logs, get_stats called, and the
                   \* commands run by execute_command

loop_vars == <<arg_size, arg_difficulty, attempts, sampled, returned>>
validator_vars == <<grid, grid_size, verdict>>
step_vars == <<evaluated>>
race_vars == <<instance_pc, uncommitted, returns>>
calls_vars == <<call_log>>
job_vars == <<active_jobs, posts, job_threads, notifications, removed_jobs>>
poll_vars == <<poll_client, poll_pc, command_data, executions, sends, polls, loop_end>>
server_vars == <<request, response, body_read, started, invoked>>
other_vars == <<step_vars, race_vars, calls_vars, job_vars, poll_vars, server_vars>>
\* what the actions of one of these groups leave alone among the others
steps_rest == <<race_vars, calls_vars, job_vars, poll_vars, server_vars>>
race_rest == <<step_vars, calls_vars, job_vars, poll_vars, server_vars>>
calls_rest == <<step_vars, race_vars, job_vars, poll_vars, server_vars>>
job_rest == <<step_vars, race_vars, calls_vars, poll_vars, server_vars>>
poll_rest == <<step_vars, race_vars, calls_vars, job_vars, server_vars>>
server_rest == <<step_vars, race_vars, calls_vars, job_vars, poll_vars>>
batch_vars == <<sizes, difficulties, count_per_size, arg_mode, i_size, i_difficulty, i_count,
                results, all_puzzles, tally, payload>>
save_vars == <<connection, table, save_call, save_result>>
seed_vars == <<first_grid, second_grid, seeds>>
sink_vars == <<ebook_puzzles, save_vars, seed_vars>>
vars == <<generator, pc, loop_vars, validator_vars, other_vars, batch_vars, sink_vars>>

\* the values of the variables of a method that is not running
LoopIdle ==
  /\ arg_size = 0 /\ arg_difficulty = "" /\ attempts = 0
  /\ sampled = NoLayout /\ returned = None
ValidatorIdle ==
  /\ grid = NoLayout /\ grid_size = 0 /\ verdict = None
StepIdle ==
  /\ evaluated = << >>
RaceIdle ==
  /\ instance_pc = << >> /\ uncommitted = << >> /\ returns = << >>
CallsIdle ==
  /\ call_log = << >>
JobIdle ==
  /\ active_jobs = << >> /\ posts = << >> /\ job_threads = << >>
  /\ notifications = << >> /\ removed_jobs = {}
PollIdle ==
  /\ poll_client = "" /\ poll_pc = "" /\ command_data = None /\ executions = 0
  /\ sends = << >> /\ polls = 0 /\ loop_end = ""
ServerIdle ==
  /\ request = None /\ response = "" /\ body_read = FALSE /\ started = << >>
  /\ invoked = {}
ServiceIdle ==
  /\ PollIdle /\ ServerIdle
OtherIdle ==
  /\ StepIdle /\ RaceIdle /\ CallsIdle /\ JobIdle /\ ServiceIdle
BatchIdle ==
  /\ sizes = << >> /\ difficulties = << >> /\ count_per_size = 0 /\ arg_mode = ""
  /\ i_size = 0 /\ i_difficulty = 0 /\ i_count = 0
  /\ results = None /\ all_puzzles = << >> /\ tally = None /\ payload = None
SaveIdle ==
  /\ connection = "none" /\ table = EmptyBag /\ save_call = None /\ save_result = "None"
SeedIdle ==
  /\ first_grid = NoLayout /\ second_grid = NoLayout /\ seeds = None
SinkIdle ==
  /\ ebook_puzzles = << >> /\ SaveIdle /\ SeedIdle

(***************************************************************************)
(* The generation loop: one call of generate_puzzle                        *)
(***************************************************************************)
Init ==
  /\ generator \in Modules
  /\ arg_size \in LoopSizes
  /\ arg_difficulty \in DifficultyInputs
  /\ attempts = 0
  /\ sampled = NoLayout
  /\ pc = "loop"
  /\ returned = None
  /\ ValidatorIdle
  /\ OtherIdle
  /\ BatchIdle
  /\ SinkIdle

\* for attempt in range(params['max_attempts']):
\*     layout = self.generate_random_layout(size, ...)
Sample ==
  /\ pc = "loop"
  /\ attempts < max_attempts(generator, arg_difficulty)
  /\ sampled' \in generate_random_layout(generator, arg_size)
  /\ attempts' = attempts + 1
  /\ pc' = "check"
  /\ UNCHANGED <<generator, arg_size, arg_difficulty, returned, validator_vars, other_vars, batch_vars, sink_vars>>

\* if (self.is_valid_akari_layout(...) and self.is_solvable(...) ...): return {...}
Check ==
  /\ pc = "check"
  /\ IF PassesChecks(generator, sampled, arg_size, arg_difficulty)
     THEN /\ returned' = Puzzle(sampled, arg_size, arg_difficulty)
          /\ pc' = "returned"
     ELSE /\ returned' = returned
          /\ pc' = "loop"
  /\ UNCHANGED <<generator, arg_size, arg_difficulty, attempts, sampled,
                 validator_vars, other_vars, batch_vars, sink_vars>>

\* Exhausted for a loop over range(params['max_attempts'] - 1)
ExhaustedEarly ==
  /\ pc = "loop"
  /\ ~(attempts < max_attempts(generator, arg_difficulty) - 1)
  /\ returned' = None
  /\ pc' = "returned"
  /\ UNCHANGED <<generator, arg_size, arg_difficulty, attempts, sampled,
                 validator_vars, other_vars, batch_vars, sink_vars>>

\* the loop ended without a return: logging.warning(...); return None
Exhausted ==
  /\ pc = "loop"
  /\ ~(attempts < max_attempts(generator, arg_difficulty))
  /\ returned' = None
  /\ pc' = "returned"
  /\ UNCHANGED <<generator, arg_size, arg_difficulty, attempts, sampled,
                 validator_vars, other_vars, batch_vars, sink_vars>>

Next == Sample \/ Check \/ Exhausted

Spec == Init /\ [][Next]_vars

\* the last iteration of the loop of the API class on a grid of side 3,
\* every earlier attempt having been rejected
LastSizes == {3}
LastDifficulties == {"hard", "expert"}

InitLast ==
  /\ generator = "api"
  /\ arg_size \in LastSizes
  /\ arg_difficulty \in LastDifficulties
  /\ attempts = max_attempts(generator, arg_difficulty) - 1
  /\ sampled = NoLayout
  /\ pc = "loop"
  /\ returned = None
  /\ ValidatorIdle
  /\ OtherIdle
  /\ BatchIdle
  /\ SinkIdle

SpecLast == InitLast /\ [][Next]_vars

\* the last iteration of the loop of the API class on a grid of side 3 with
\* difficulty easy: the smallest call that can return a grid with five empty
\* cells of which exactly one touches a numbered wall
RatioSizes == {3}
RatioDifficulties == {"easy"}

InitRatio ==
  /\ generator = "api"
  /\ arg_size \in RatioSizes
  /\ arg_difficulty \in RatioDifficulties
  /\ attempts = max_attempts(generator, arg_difficulty) - 1
  /\ sampled = NoLayout
  /\ pc = "loop"
  /\ returned = None
  /\ ValidatorIdle
  /\ OtherIdle
  /\ BatchIdle
  /\ SinkIdle

SpecRatio == InitRatio /\ [][Next]_vars

(***************************************************************************)
(* The last iteration of the API class on grids of side 8                  *)
(***************************************************************************)
LargeSize == 8

\* the cells <<x, y>> with x + y even that take a number, in this order; the
\* other cells with x + y even are plain walls
NumberedOrder ==
  << <<2, 2>>, <<6, 2>>, <<4, 4>>, <<8, 4>>, <<1, 1>>, <<3, 1>>, <<5, 1>>, <<7, 1>>,
     <<4, 2>>, <<8, 2>>, <<1, 3>>, <<3, 3>>, <<5, 3>>, <<7, 3>>, <<2, 4>>, <<6, 4>>,
     <<1, 5>>, <<3, 5>> >>

\* the numbers written: '1' everywhere, '2' everywhere, or '1' and '2' in turn
NumberPatterns == {"ones", "twos", "mixed"}

\* how many walls are numbered, and how many of the cells with x + y odd,
\* counted from the last cell of the last row, are walls
NumberedCounts == {0, 1, 2, 3, 4, 13, 16, 17}
ExtraWalls == {0, 1, 6, 7, 12, 13, 16}

\* the grid of side 8 with the first k cells of NumberedOrder numbered
LargeGrid(k, pattern, extra) ==
  [y \in 1..LargeSize |->
     [x \in 1..LargeSize |->
        IF (x + y) % 2 = 0
        THEN IF \E j \in 1..k : NumberedOrder[j] = <<x, y>>
             THEN LET j == CHOOSE j \in 1..k : NumberedOrder[j] = <<x, y>>
                  IN  CASE pattern = "ones" -> "1"
                        [] pattern = "twos" -> "2"
                        [] pattern = "mixed" -> IF j % 2 = 1 THEN "1" ELSE "2"
             ELSE WALL
        ELSE IF 32 - ((y - 1) * 4 + (x + 1) \div 2) + 1 <= extra THEN WALL ELSE EMPTY]]

\* the grid after the wall pass of generate_random_layout that the number
\* pass makes grid l of
Walled(l, size) ==
  [y \in 1..size |-> [x \in 1..size |-> IF l[y][x] = EMPTY THEN EMPTY ELSE WALL]]

\* generate_random_layout of class gen can return l
CanBeSampled(gen, l, size) ==
  \A q \in Positions(size) :
    l[q[2]][q[1]] \in CellOutcomes(gen, Walled(l, size), q[1], q[2], size)

\* the grids of side 8 the last iteration is explored with
LargeGrids ==
  {g \in {LargeGrid(k, pattern, extra) :
            k \in NumberedCounts, pattern \in NumberPatterns, extra \in ExtraWalls} :
     CanBeSampled("api", g, LargeSize)}

InitLarge ==
  /\ generator = "api"
  /\ arg_size = LargeSize
  /\ arg_difficulty \in DifficultyInputs
  /\ attempts = max_attempts(generator, arg_difficulty) - 1
  /\ sampled = NoLayout
  /\ pc = "loop"
  /\ returned = None
  /\ ValidatorIdle
  /\ OtherIdle
  /\ BatchIdle
  /\ SinkIdle

\* Sample when generate_random_layout returns a grid of LargeGrids
SampleLarge ==
  /\ pc = "loop"
  /\ attempts < max_attempts(generator, arg_difficulty)
  /\ sampled' \in LargeGrids
  /\ attempts' = attempts + 1
  /\ pc' = "check"
  /\ UNCHANGED <<generator, arg_size, arg_difficulty, returned, validator_vars, other_vars, batch_vars, sink_vars>>

NextLarge == SampleLarge \/ Check \/ Exhausted

SpecLarge == InitLarge /\ [][NextLarge]_vars

(***************************************************************************)
(* generate_seed called on two grids of one size                           *)
(***************************************************************************)
\* the grids the two calls are explored with: what the samplers of the two
\* classes can return for the sides of LoopSizes
SeedGrids(n) == generate_random_layout("db", n) \cup generate_random_layout("api", n)

InitSeed ==
  /\ generator \in Modules
  /\ \E n \in LoopSizes :
       /\ first_grid \in SeedGrids(n)
       /\ second_grid \in SeedGrids(n)
  /\ seeds = None
  /\ pc = "seed"
  /\ ebook_puzzles = << >>
  /\ SaveIdle
  /\ LoopIdle
  /\ ValidatorIdle
  /\ OtherIdle
  /\ BatchIdle

\* self.generate_seed(first_grid); self.generate_seed(second_grid)
Fingerprint ==
  /\ pc = "seed"
  /\ seeds' = <<generate_seed(first_grid), generate_seed(second_grid)>>
  /\ pc' = "seeded"
  /\ UNCHANGED <<generator, first_grid, second_grid, ebook_puzzles, save_vars,
                 loop_vars, validator_vars, other_vars, batch_vars>>

NextSeed == Fingerprint

SpecSeed == InitSeed /\ [][NextSeed]_vars

(***************************************************************************)
(* The checks called again on the layout of a returned puzzle              *)
(***************************************************************************)
\* the checks of a class, by method name
ChecksOf(gen) ==
  IF gen = "db"
  THEN {"is_valid_akari_layout", "is_solvable"}
  ELSE {"is_valid_akari_layout", "is_solvable", "_validate_puzzle_quality"}

\* the value of the method name of class gen on a layout
RunCheck(gen, name, layout, size, difficulty) ==
  CASE name = "is_valid_akari_layout" -> is_valid_akari_layout(layout, size)
    [] name = "is_solvable" ->
         IF gen = "db" THEN is_solvable_db(layout, size) ELSE is_solvable_api(layout, size)
    [] name = "_validate_puzzle_quality" -> _validate_puzzle_quality(layout, size, difficulty)

\* the last iteration of the loop of either class on the sides of LoopSizes
InitRevalidate ==
  /\ generator \in Modules
  /\ arg_size \in LoopSizes
  /\ arg_difficulty \in DifficultyInputs
  /\ attempts = max_attempts(generator, arg_difficulty) - 1
  /\ sampled = NoLayout
  /\ pc = "loop"
  /\ returned = None
  /\ ValidatorIdle
  /\ OtherIdle
  /\ BatchIdle
  /\ SinkIdle

\* a caller holding the returned puzzle calls one of the checks on its layout;
\* the checks only read the layout
Revalidate ==
  /\ pc = "returned"
  /\ returned # None
  /\ \E name \in ChecksOf(generator) :
       verdict' = [check |-> name,
                   value |-> RunCheck(generator, name, returned.layout,
                                      returned.size, returned.difficulty)]
  /\ UNCHANGED <<generator, pc, loop_vars, grid, grid_size, other_vars, batch_vars, sink_vars>>

NextRevalidate == Sample \/ Check \/ Exhausted \/ Revalidate

SpecRevalidate == InitRevalidate /\ [][NextRevalidate]_vars

(***************************************************************************)
(* One attempt of generate_puzzle, call by call                            *)
(***************************************************************************)
\* the operands of the condition of generate_puzzle, in the order written
CheckOrder(gen) ==
  IF gen = "db"
  THEN <<"is_valid_akari_layout", "is_solvable">>
  ELSE <<"is_valid_akari_layout", "is_solvable", "_validate_puzzle_quality">>

\* an operator that evaluates both operands (& instead of and)
AfterOperandEager(gen, k, value) ==
  IF k < Len(CheckOrder(gen)) THEN CheckOrder(gen)[k + 1]
  ELSE IF value THEN "generate_seed"
  ELSE "loop"

\* Python's 'and': the operand after the k-th is evaluated only when the k-th
\* is true; with every operand true the body of the if runs
AfterOperand(gen, k, value) ==
  IF ~value THEN "loop"
  ELSE IF k < Len(CheckOrder(gen)) THEN CheckOrder(gen)[k + 1]
  ELSE "generate_seed"

\* the last iteration of the loop of either class, as InitRevalidate
InitSteps ==
  /\ generator \in Modules
  /\ arg_size \in LoopSizes
  /\ arg_difficulty \in DifficultyInputs
  /\ attempts = max_attempts(generator, arg_difficulty) - 1
  /\ sampled = NoLayout
  /\ pc = "loop"
  /\ returned = None
  /\ ValidatorIdle
  /\ OtherIdle
  /\ BatchIdle
  /\ SinkIdle

\* for attempt in range(params['max_attempts']):
\*     layout = self.generate_random_layout(size, ...)
NextAttempt ==
  /\ pc = "loop"
  /\ attempts < max_attempts(generator, arg_difficulty)
  /\ sampled' \in generate_random_layout(generator, arg_size)
  /\ attempts' = attempts + 1
  /\ evaluated' = << >>
  /\ pc' = CheckOrder(generator)[1]
  /\ UNCHANGED <<generator, arg_size, arg_difficulty, returned, validator_vars, steps_rest, batch_vars,
                 sink_vars>>

\* one operand of the condition is evaluated
EvaluateOperand ==
  /\ \E k \in 1..Len(CheckOrder(generator)) :
       /\ pc = CheckOrder(generator)[k]
       /\ LET value == RunCheck(generator, pc, sampled, arg_size, arg_difficulty)
          IN  /\ evaluated' = Append(evaluated, [call |-> pc, value |-> value])
              /\ pc' = AfterOperand(generator, k, value)
  /\ UNCHANGED <<generator, loop_vars, validator_vars, steps_rest, batch_vars, sink_vars>>

\* seed = self.generate_seed(layout); return {...}
ComputeSeed ==
  /\ pc = "generate_seed"
  /\ evaluated' = Append(evaluated, [call |-> pc, value |-> TRUE])
  /\ returned' = Puzzle(sampled, arg_size, arg_difficulty)
  /\ pc' = "returned"
  /\ UNCHANGED <<generator, arg_size, arg_difficulty, attempts, sampled,
                 validator_vars, steps_rest, batch_vars, sink_vars>>

\* the loop ended without a return: logging.warning(...); return None
LoopEnds ==
  /\ pc = "loop"
  /\ ~(attempts < max_attempts(generator, arg_difficulty))
  /\ returned' = None
  /\ pc' = "returned"
  /\ UNCHANGED <<generator, arg_size, arg_difficulty, attempts, sampled,
                 validator_vars, other_vars, batch_vars, sink_vars>>

NextSteps == NextAttempt \/ EvaluateOperand \/ ComputeSeed \/ LoopEnds

SpecSteps == InitSteps /\ [][NextSteps]_vars

(***************************************************************************)
(* The structural validator on any grid of the cell kinds below            *)
(***************************************************************************)
\* 0, 'X', the digit strings '0'..'5' and a string that is no digit string
CellInputs == {".", "X", "0", "1", "2", "3", "4", "5", "Y"}
ValidatorSizes == {1, 2}

InitValidator ==
  /\ generator \in Modules
  /\ grid_size \in ValidatorSizes
  /\ grid \in [1..grid_size -> [1..grid_size -> CellInputs]]
  /\ verdict = None
  /\ pc = "validate"
  /\ LoopIdle
  /\ OtherIdle
  /\ BatchIdle
  /\ SinkIdle

\* the call is_valid_akari_layout(layout, size)
Validate ==
  /\ pc = "validate"
  /\ verdict' = is_valid_akari_layout(grid, grid_size)
  /\ pc' = "validated"
  /\ UNCHANGED <<generator, grid, grid_size, other_vars, loop_vars, batch_vars, sink_vars>>

NextValidator == Validate

SpecValidator == InitValidator /\ [][NextValidator]_vars

(***************************************************************************)
(* _validate_puzzle_quality on a grid, for the four difficulties           *)
(***************************************************************************)
\* every grid of side 2 or 3 over an empty cell, a wall and a '1'
QualityCells == {EMPTY, WALL, "1"}
QualitySmallSizes == {2, 3}
\* and, for the sides 4 and 8, one grid per count of empty cells and of
\* numbered walls: in row order the empty cells, then the numbered walls
\* ('1' and '2' in turn), then the plain walls
QualityCountSizes == {4, 8}

CountGrid(size, white, numbered) ==
  [y \in 1..size |->
     [x \in 1..size |->
        LET j == (y - 1) * size + x
        IN  IF j <= white THEN EMPTY
            ELSE IF j <= white + numbered
                 THEN (IF (j - white) % 2 = 1 THEN "1" ELSE "2")
            ELSE WALL]]

InitQuality ==
  /\ generator = "api"
  /\ \/ /\ grid_size \in QualitySmallSizes
        /\ grid \in [1..grid_size -> [1..grid_size -> QualityCells]]
     \/ /\ grid_size \in QualityCountSizes
        /\ \E white \in 0..(grid_size * grid_size) :
             \E numbered \in 0..(grid_size * grid_size - white) :
               grid = CountGrid(grid_size, white, numbered)
  /\ verdict = None
  /\ pc = "quality"
  /\ LoopIdle
  /\ OtherIdle
  /\ BatchIdle
  /\ SinkIdle

\* the calls _validate_puzzle_quality(layout, size, d) for the four d
ValidateQuality ==
  /\ pc = "quality"
  /\ verdict' = [d \in Difficulties |-> _validate_puzzle_quality(grid, grid_size, d)]
  /\ pc' = "validated"
  /\ UNCHANGED <<generator, grid, grid_size, other_vars, loop_vars, batch_vars, sink_vars>>

NextQuality == ValidateQuality

SpecQuality == InitQuality /\ [][NextQuality]_vars

(***************************************************************************)
(* generate_batch                                                          *)
(***************************************************************************)
\* d[k] = v on a dict d
SetKey(d, k, v) == [x \in DOMAIN d \cup {k} |-> IF x = k THEN v ELSE d[x]]

\* the elements of a list
Range(list) == {list[i] : i \in 1..Len(list)}

\* at most n elements of the set S
RECURSIVE Pick(_, _)
Pick(S, n) ==
  IF n = 0 \/ S = {} THEN {}
  ELSE LET x == CHOOSE y \in S : TRUE IN {x} \cup Pick(S \ {x}, n - 1)

\* how many of the puzzles generate_puzzle can return for one size and
\* difficulty the batch is explored with
BatchChoices == 2

\* what self.generate_puzzle(size, difficulty) can return to the batch:
\* None, or the puzzle of a layout the sampler can draw and the checks pass
GenerateOutcomes(gen, size, difficulty) ==
  {None} \cup
  {Puzzle(l, size, difficulty) :
     l \in Pick({c \in generate_random_layout(gen, size) :
                   PassesChecks(gen, c, size, difficulty)}, BatchChoices)}

\* results = {'total_generated': 0, 'total_saved': 0, 'failed': 0, ...}
NewResults(gen) ==
  IF gen = "db"
  THEN [total_generated |-> 0, total_saved |-> 0, failed |-> 0,
        by_size |-> << >>, by_difficulty |-> << >>]
  ELSE [total_generated |-> 0, total_sent |-> 0, failed |-> 0,
        by_size |-> << >>, by_difficulty |-> << >>]

\* results['total_generated'] += 1; results['by_size'][size] += 1;
\* results['by_difficulty'][difficulty] += 1
AcceptCounted(res, size, difficulty) ==
  [res EXCEPT !.total_generated = @ + 1,
              !.by_size[size] = @ + 1,
              !.by_difficulty[difficulty] = @ + 1]

\* FailureCounted without the increment
FailureSkipped(res) == res

\* results['failed'] += 1
FailureCounted(res) == [res EXCEPT !.failed = @ + 1]

\* the values of the argument mode: the default and the other mode of the site
Modes == {"premium", "free"}

\* how self.save_puzzle_to_db(puzzle, mode) ends: it returns True or False,
\* or the UnboundLocalError of its finally clause propagates to the caller
Raised == "UnboundLocalError"
SaveResults == {"True", "False", Raised}

\* random.randint(1, 30) of send_puzzles_to_api, explored up to SendDays
SendDays == 1

\* api_puzzle = {'layout': ..., 'seed': ..., 'size': ..., 'difficulty': ...,
\* 'mode': mode}, with 'date' for a premium puzzle; days is the number drawn
ApiPuzzle(puzzle, mode, days) ==
  LET api_puzzle == [layout |-> puzzle.layout, seed |-> puzzle.seed,
                     size |-> puzzle.size, difficulty |-> puzzle.difficulty,
                     mode |-> mode]
  IN  IF mode = "premium" THEN SetKey(api_puzzle, "date", days) ELSE api_puzzle

\* ApiPuzzles for a loop over puzzles[:-1]
ApiPuzzlesButLast(puzzles, mode) ==
  {[j \in 1..(Len(puzzles) - 1) |-> ApiPuzzle(puzzles[j], mode, days[j])] :
     days \in [1..(Len(puzzles) - 1) -> 1..SendDays]}

\* the lists api_puzzles send_puzzles_to_api can build from the list puzzles
ApiPuzzles(puzzles, mode) ==
  {[j \in 1..Len(puzzles) |-> ApiPuzzle(puzzles[j], mode, days[j])] :
     days \in [1..Len(puzzles) -> 1..SendDays]}

\* the lists and counts the batch is explored with
BatchSizeValues == {1, 2}
BatchDifficultyValues == {"easy", "hard"}
MaxListLen == 2
MaxCount == 2
ListsOf(S) == UNION {[1..n -> S] : n \in 0..MaxListLen}

InitBatch ==
  /\ generator \in Modules
  /\ sizes \in ListsOf(BatchSizeValues)
  /\ difficulties \in ListsOf(BatchDifficultyValues)
  /\ count_per_size \in 0..MaxCount
  /\ arg_mode \in Modes
  /\ i_size = 0
  /\ i_difficulty = 0
  /\ i_count = 0
  /\ results = NewResults(generator)
  /\ all_puzzles = << >>
  /\ tally = [calls |-> [p \in (1..Len(sizes)) \X (1..Len(difficulties)) |-> 0],
              none |-> 0,
              by_size |-> [n \in Range(sizes) |-> 0],
              by_difficulty |-> [d \in Range(difficulties) |-> 0],
              unsaved |-> 0]
  /\ payload = None
  /\ pc = "sizes"
  /\ LoopIdle
  /\ ValidatorIdle
  /\ OtherIdle
  /\ SinkIdle

\* for size in sizes: results['by_size'][size] = 0; after the last size the
\* database class returns results, the API class goes on to send
ForSize ==
  /\ pc = "sizes"
  /\ IF i_size < Len(sizes)
     THEN /\ i_size' = i_size + 1
          /\ results' = [results EXCEPT !.by_size = SetKey(@, sizes[i_size + 1], 0)]
          /\ i_difficulty' = 0
          /\ pc' = "difficulties"
     ELSE /\ pc' = IF generator = "db" THEN "done" ELSE "send"
          /\ UNCHANGED <<i_size, results, i_difficulty>>
  /\ UNCHANGED <<generator, sizes, difficulties, count_per_size, arg_mode, i_count, all_puzzles,
                 tally, payload, loop_vars, validator_vars, other_vars, sink_vars>>

\* for difficulty in difficulties: results['by_difficulty'][difficulty] = 0
ForDifficulty ==
  /\ pc = "difficulties"
  /\ IF i_difficulty < Len(difficulties)
     THEN /\ i_difficulty' = i_difficulty + 1
          /\ results' = [results EXCEPT
                           !.by_difficulty = SetKey(@, difficulties[i_difficulty + 1], 0)]
          /\ i_count' = 0
          /\ pc' = "count"
     ELSE /\ pc' = "sizes"
          /\ UNCHANGED <<i_difficulty, results, i_count>>
  /\ UNCHANGED <<generator, sizes, difficulties, count_per_size, arg_mode, i_size, all_puzzles,
                 tally, payload, loop_vars, validator_vars, other_vars, sink_vars>>

\* for i in range(count_per_size): puzzle = self.generate_puzzle(size, difficulty)
\* and the counting of its result; in the database class also
\* self.save_puzzle_to_db(puzzle, mode), whose exception leaves generate_batch
ForCount ==
  /\ pc = "count"
  /\ IF i_count < count_per_size
     THEN LET size == sizes[i_size]
              difficulty == difficulties[i_difficulty]
              called == [tally EXCEPT !.calls[<<i_size, i_difficulty>>] = @ + 1]
          IN  /\ i_count' = i_count + 1
              /\ \E puzzle \in GenerateOutcomes(generator, size, difficulty) :
                   IF puzzle # None
                   THEN LET counted == AcceptCounted(results, size, difficulty)
                            accepted == [called EXCEPT !.by_size[size] = @ + 1,
                                                       !.by_difficulty[difficulty] = @ + 1]
                        IN  IF generator = "db"
                            THEN /\ \E saved \in SaveResults :
                                      CASE saved = "True" ->
                                             /\ results' = [counted EXCEPT !.total_saved = @ + 1]
                                             /\ tally' = accepted
                                             /\ pc' = pc
                                        [] saved = "False" ->
                                             /\ results' = FailureCounted(counted)
                                             /\ tally' = [accepted EXCEPT !.unsaved = @ + 1]
                                             /\ pc' = pc
                                        [] saved = Raised ->
                                             /\ results' = counted
                                             /\ tally' = accepted
                                             /\ pc' = "raised"
                                 /\ all_puzzles' = all_puzzles
                            ELSE /\ results' = counted
                                 /\ all_puzzles' = Append(all_puzzles, puzzle)
                                 /\ tally' = accepted
                                 /\ pc' = pc
                   ELSE /\ results' = FailureCounted(results)
                        /\ tally' = [called EXCEPT !.none = @ + 1]
                        /\ all_puzzles' = all_puzzles
                        /\ pc' = pc
     ELSE /\ pc' = "difficulties"
          /\ UNCHANGED <<i_count, results, all_puzzles, tally>>
  /\ UNCHANGED <<generator, sizes, difficulties, count_per_size, arg_mode, i_size, i_difficulty,
                 payload, loop_vars, validator_vars, other_vars, sink_vars>>

\* if all_puzzles: api_result = self.send_puzzles_to_api(all_puzzles, mode),
\* which posts the list api_puzzles; the server answers with the number it
\* saved, or the send fails (network error, a status other than 200, or an
\* answer without success) and is reported in the returned dict
SendBatch ==
  /\ pc = "send"
  /\ IF all_puzzles # << >>
     THEN /\ payload' \in ApiPuzzles(all_puzzles, arg_mode)
          /\ \E success \in BOOLEAN :
               IF success
               THEN \E saved \in 0..Len(all_puzzles) :
                      results' = SetKey([results EXCEPT !.total_sent = saved],
                                        "api_errors", << >>)
               ELSE results' = SetKey(results, "api_error", "error")
     ELSE /\ results' = results
          /\ payload' = payload
  /\ pc' = "done"
  /\ UNCHANGED <<generator, sizes, difficulties, count_per_size, arg_mode, i_size, i_difficulty,
                 i_count, all_puzzles, tally, loop_vars, validator_vars, other_vars, sink_vars>>

NextBatch == ForSize \/ ForDifficulty \/ ForCount \/ SendBatch

SpecBatch == InitBatch /\ [][NextBatch]_vars

(***************************************************************************)
(* generate_batch call by call: the calls of generate_puzzle and of the    *)
(* sinks as separate steps                                                 *)
(***************************************************************************)
\* the lists the calls are explored with
CallSizeLists == ListsOf(BatchSizeValues)
CallDifficultyLists == {<< >>, <<"easy">>}

\* an entry of call_log
Called(name, outcome, seed) == [call |-> name, outcome |-> outcome, seed |-> seed]

InitCalls ==
  /\ generator \in Modules
  /\ sizes \in CallSizeLists
  /\ difficulties \in CallDifficultyLists
  /\ count_per_size \in 0..MaxCount
  /\ arg_mode \in Modes
  /\ i_size = 0
  /\ i_difficulty = 0
  /\ i_count = 0
  /\ results = NewResults(generator)
  /\ all_puzzles = << >>
  /\ tally = [calls |-> [q \in (1..Len(sizes)) \X (1..Len(difficulties)) |-> 0],
              none |-> 0,
              by_size |-> [n \in Range(sizes) |-> 0],
              by_difficulty |-> [d \in Range(difficulties) |-> 0],
              unsaved |-> 0]
  /\ payload = None
  /\ pc = "sizes"
  /\ call_log = << >>
  /\ LoopIdle
  /\ ValidatorIdle
  /\ StepIdle
  /\ RaceIdle
  /\ JobIdle
  /\ ServiceIdle
  /\ SinkIdle

CallsFrame ==
  UNCHANGED <<generator, sizes, difficulties, count_per_size, arg_mode, i_size, i_difficulty,
              arg_size, arg_difficulty, attempts, sampled, validator_vars, calls_rest,
              sink_vars>>

\* puzzle = self.generate_puzzle(size, difficulty) and the counting of its
\* result; the API class appends the puzzle to all_puzzles
CallGenerate ==
  /\ pc = "count"
  /\ i_count < count_per_size
  /\ LET size == sizes[i_size]
         difficulty == difficulties[i_difficulty]
         called == [tally EXCEPT !.calls[<<i_size, i_difficulty>>] = @ + 1]
     IN  \E puzzle \in GenerateOutcomes(generator, size, difficulty) :
           /\ returned' = puzzle
           /\ IF puzzle # None
              THEN /\ call_log' = Append(call_log,
                                         Called("generate_puzzle", "puzzle", puzzle.seed))
                   /\ results' = AcceptCounted(results, size, difficulty)
                   /\ tally' = [called EXCEPT !.by_size[size] = @ + 1,
                                              !.by_difficulty[difficulty] = @ + 1]
                   /\ IF generator = "db"
                      THEN /\ pc' = "save"
                           /\ UNCHANGED <<i_count, all_puzzles>>
                      ELSE /\ all_puzzles' = Append(all_puzzles, puzzle)
                           /\ i_count' = i_count + 1
                           /\ pc' = pc
              ELSE /\ call_log' = Append(call_log, Called("generate_puzzle", "None", ""))
                   /\ results' = FailureCounted(results)
                   /\ tally' = [called EXCEPT !.none = @ + 1]
                   /\ i_count' = i_count + 1
                   /\ UNCHANGED <<pc, all_puzzles>>
  /\ payload' = payload
  /\ CallsFrame

\* if self.save_puzzle_to_db(puzzle, mode): results['total_saved'] += 1
\* else: results['failed'] += 1
CallSave ==
  /\ pc = "save"
  /\ \E saved \in SaveResults :
       /\ call_log' = Append(call_log, Called("save_puzzle_to_db", saved, returned.seed))
       /\ CASE saved = "True" ->
                 /\ results' = [results EXCEPT !.total_saved = @ + 1]
                 /\ tally' = tally
                 /\ i_count' = i_count + 1
                 /\ pc' = "count"
            [] saved = "False" ->
                 /\ results' = FailureCounted(results)
                 /\ tally' = [tally EXCEPT !.unsaved = @ + 1]
                 /\ i_count' = i_count + 1
                 /\ pc' = "count"
            [] saved = Raised ->
                 /\ UNCHANGED <<results, tally, i_count>>
                 /\ pc' = "raised"
  /\ UNCHANGED <<returned, all_puzzles, payload>>
  /\ CallsFrame

\* range(count_per_size) is used up
CallsEnd ==
  /\ pc = "count"
  /\ ~(i_count < count_per_size)
  /\ pc' = "difficulties"
  /\ UNCHANGED <<i_count, results, all_puzzles, tally, payload, returned, call_log>>
  /\ CallsFrame

\* if all_puzzles: api_result = self.send_puzzles_to_api(all_puzzles, mode)
CallSend ==
  /\ pc = "send"
  /\ IF all_puzzles # << >>
     THEN /\ payload' \in ApiPuzzles(all_puzzles, arg_mode)
          /\ \E success \in BOOLEAN :
               IF success
               THEN /\ \E saved \in 0..Len(all_puzzles) :
                         results' = SetKey([results EXCEPT !.total_sent = saved],
                                           "api_errors", << >>)
                    /\ call_log' = Append(call_log, Called("send_puzzles_to_api", "True", ""))
               ELSE /\ results' = SetKey(results, "api_error", "error")
                    /\ call_log' = Append(call_log, Called("send_puzzles_to_api", "False", ""))
     ELSE UNCHANGED <<results, payload, call_log>>
  /\ pc' = "done"
  /\ UNCHANGED <<i_count, all_puzzles, tally, returned>>
  /\ CallsFrame

NextCalls == ForSize \/ ForDifficulty \/ CallGenerate \/ CallSave \/ CallsEnd \/ CallSend

SpecCalls == InitCalls /\ [][NextCalls]_vars

(***************************************************************************)
(* save_puzzle_to_db, called any number of times on one generator          *)
(***************************************************************************)
\* random.randint(1, 30) of save_puzzle_to_db, explored up to SaveDays
SaveDays == 2

\* (datetime.now() + timedelta(days=k)).strftime('%Y-%m-%d'), as the number
\* of days after today written out
DateString(k) == IF k = 0 THEN "today" ELSE "today+" \o str(k)

\* the values of the argument date: None, or the string of a day
DateArguments == {"None", DateString(1)}

\* the puzzles the calls are made with
SavePuzzles == GenerateOutcomes("db", 2, "easy") \ {None}

\* where the database fails during a call, if it does: in connect_db, in
\* self.connection.cursor(), in one of the two cursor.execute, in commit
SaveFailures == {"no", "connect", "cursor", "select", "insert", "commit"}

\* how many rows the table is explored up to
MaxRows == 3

\* the row the INSERT writes (created_at left out)
Row(puzzle, mode, date) ==
  [game |-> "akari", seed |-> puzzle.seed, layout |-> json_dumps(puzzle.layout),
   size |-> puzzle.size, mode |-> mode, date |-> date]

\* the rows SELECT id FROM puzzles WHERE game = 'akari' AND mode = %s AND
\* date = %s AND seed = %s finds
Selected(rows, mode, date, seed) ==
  {r \in BagToSet(rows) :
     r.game = "akari" /\ r.mode = mode /\ r.date = date /\ r.seed = seed}

InitSave ==
  /\ generator = "db"
  /\ connection = "none"
  /\ table = EmptyBag
  /\ save_call = None
  /\ save_result = "None"
  /\ pc = "save"
  /\ ebook_puzzles = << >>
  /\ SeedIdle
  /\ LoopIdle
  /\ ValidatorIdle
  /\ OtherIdle
  /\ BatchIdle

\* the frame of a call of save_puzzle_to_db
SaveFrame ==
  UNCHANGED <<generator, pc, ebook_puzzles, seed_vars, loop_vars, validator_vars, other_vars, batch_vars>>

\* save_puzzle_to_db without the SELECT: every call inserts
SavePuzzleUnchecked ==
  /\ pc = "save"
  /\ BagCardinality(table) < MaxRows
  /\ \E puzzle \in SavePuzzles, mode \in Modes, date \in DateArguments,
        days \in 1..SaveDays :
       LET used == IF date # "None" THEN date
                   ELSE IF mode = "premium" THEN DateString(days) ELSE DateString(0)
       IN  /\ save_call' = [puzzle |-> puzzle, mode |-> mode, date |-> date, used |-> used]
           /\ connection' = "open"
           /\ table' = table (+) SetToBag({Row(puzzle, mode, used)})
           /\ save_result' = "True"
  /\ SaveFrame

\* one call save_puzzle_to_db(puzzle, mode, date), from entry to return or
\* to the exception that leaves it; days is what random.randint returns and
\* failure the place where the database raises mysql.connector.Error
SavePuzzle ==
  /\ pc = "save"
  /\ BagCardinality(table) < MaxRows
  /\ \E puzzle \in SavePuzzles, mode \in Modes, date \in DateArguments,
        days \in 1..SaveDays, failure \in SaveFailures :
       LET used == IF date # "None" THEN date
                   ELSE IF mode = "premium" THEN DateString(days) ELSE DateString(0)
           row == Row(puzzle, mode, used)
       IN  /\ save_call' = [puzzle |-> puzzle, mode |-> mode, date |-> date, used |-> used]
           /\ IF connection # "open" /\ failure = "connect"
              THEN \* connect_db returned False: return False
                   /\ save_result' = "False"
                   /\ UNCHANGED <<connection, table>>
              ELSE CASE failure = "cursor" ->
                          \* except Error: return False, then finally: if cursor
                          \* reads the local cursor, which was never assigned
                          /\ save_result' = Raised
                          /\ connection' = "lost"
                          /\ table' = table
                     [] failure = "select" ->
                          /\ save_result' = "False"
                          /\ connection' \in {"open", "lost"}
                          /\ table' = table
                     [] failure \in {"no", "connect", "insert", "commit"}
                          /\ Selected(table, mode, used, puzzle.seed) # {} ->
                          \* if cursor.fetchone(): return True
                          /\ save_result' = "True"
                          /\ connection' = "open"
                          /\ table' = table
                     [] failure = "insert"
                          /\ Selected(table, mode, used, puzzle.seed) = {} ->
                          /\ save_result' = "False"
                          /\ connection' \in {"open", "lost"}
                          /\ table' = table
                     [] failure = "commit"
                          /\ Selected(table, mode, used, puzzle.seed) = {} ->
                          \* the inserted row stays in the open transaction
                          \* or is lost with the connection
                          /\ save_result' = "False"
                          /\ \/ connection' = "open" /\ table' = table (+) SetToBag({row})
                             \/ connection' = "lost" /\ table' = table
                     [] failure \in {"no", "connect"}
                          /\ Selected(table, mode, used, puzzle.seed) = {} ->
                          /\ save_result' = "True"
                          /\ connection' = "open"
                          /\ table' = table (+) SetToBag({row})
  /\ SaveFrame

NextSave == SavePuzzle

SpecSave == InitSave /\ [][NextSave]_vars

(***************************************************************************)
(* save_puzzle_to_db called by two generators at once, each on its own     *)
(* connection, with the same puzzle, mode and date                         *)
(***************************************************************************)
Instances == {1, 2}

\* the dates the two calls use
RaceDates == {DateString(0), DateString(1)}

\* the row both calls are about
RaceRow == Row(save_call.puzzle, save_call.mode, save_call.used)

InitRace ==
  /\ generator = "db"
  /\ pc = "race"
  /\ connection = "none"
  /\ \E puzzle \in SavePuzzles, mode \in Modes, date \in RaceDates :
       /\ save_call = [puzzle |-> puzzle, mode |-> mode, date |-> date, used |-> date]
       /\ table \in {EmptyBag, SetToBag({Row(puzzle, mode, date)})}
  /\ save_result = "None"
  /\ instance_pc = [i \in Instances |-> "start"]
  /\ uncommitted = [i \in Instances |-> EmptyBag]
  /\ returns = [i \in Instances |-> "None"]
  /\ ebook_puzzles = << >>
  /\ SeedIdle
  /\ LoopIdle
  /\ ValidatorIdle
  /\ StepIdle
  /\ CallsIdle
  /\ JobIdle
  /\ ServiceIdle
  /\ BatchIdle

RaceFrame ==
  UNCHANGED <<generator, pc, connection, save_call, save_result, ebook_puzzles, seed_vars,
              loop_vars, validator_vars, race_rest, batch_vars>>

\* the call leaves with the value result
RaceReturn(i, result) ==
  /\ instance_pc' = [instance_pc EXCEPT ![i] = "returned"]
  /\ returns' = [returns EXCEPT ![i] = result]

\* if not self.connection ...: if not self.connect_db(): return False
\* cursor = self.connection.cursor()
RaceConnect ==
  \E i \in Instances :
      /\ instance_pc[i] = "start"
      /\ \/ /\ instance_pc' = [instance_pc EXCEPT ![i] = "select"]
            /\ returns' = returns
         \/ RaceReturn(i, "False")
         \/ RaceReturn(i, Raised)
      /\ UNCHANGED <<table, uncommitted>>
      /\ RaceFrame

\* cursor.execute(check_query, ...); if cursor.fetchone(): return True
\* the SELECT sees the committed rows and the rows of its own transaction
RaceSelect ==
  \E i \in Instances :
      /\ instance_pc[i] = "select"
      /\ \/ /\ Selected(table (+) uncommitted[i], save_call.mode, save_call.used,
                        save_call.puzzle.seed) # {}
            /\ RaceReturn(i, "True")
         \/ /\ Selected(table (+) uncommitted[i], save_call.mode, save_call.used,
                        save_call.puzzle.seed) = {}
            /\ instance_pc' = [instance_pc EXCEPT ![i] = "insert"]
            /\ returns' = returns
         \/ RaceReturn(i, "False")
      /\ UNCHANGED <<table, uncommitted>>
      /\ RaceFrame

\* cursor.execute(insert_query, ...), or the database raising Error
RaceInsert ==
  \E i \in Instances :
      /\ instance_pc[i] = "insert"
      /\ \/ /\ uncommitted' = [uncommitted EXCEPT ![i] = @ (+) SetToBag({RaceRow})]
            /\ instance_pc' = [instance_pc EXCEPT ![i] = "commit"]
            /\ returns' = returns
         \/ /\ RaceReturn(i, "False")
            /\ uncommitted' = uncommitted
      /\ table' = table
      /\ RaceFrame

\* self.connection.commit(); return True, or the database raising Error
RaceCommit ==
  \E i \in Instances :
      /\ instance_pc[i] = "commit"
      /\ \/ /\ table' = table (+) uncommitted[i]
            /\ RaceReturn(i, "True")
         \/ /\ table' = table
            /\ RaceReturn(i, "False")
      /\ uncommitted' = [uncommitted EXCEPT ![i] = EmptyBag]
      /\ RaceFrame

NextRace == RaceConnect \/ RaceSelect \/ RaceInsert \/ RaceCommit

SpecRace == InitRace /\ [][NextRace]_vars

(***************************************************************************)
(* generate_ebook_puzzles                                                  *)
(***************************************************************************)
\* for difficulty in ['easy', 'medium', 'hard']
EbookDifficulties == <<"easy", "medium", "hard">>

\* how many of the puzzles generate_puzzle can return for one size and
\* difficulty the ebook loop is explored with
EbookChoices == 1

\* what self.generate_puzzle(size, difficulty) can return to the ebook loop
EbookOutcomes(gen, size, difficulty) ==
  {None} \cup
  {Puzzle(l, size, difficulty) :
     l \in Pick({c \in generate_random_layout(gen, size) :
                   PassesChecks(gen, c, size, difficulty)}, EbookChoices)}

\* f"{n:03d}" for n below 10
Pad3(n) == "00" \o str(n)

\* f"ebook_{size}_{difficulty}_{i+1:03d}", i counted from 0
ebook_id(size, difficulty, i) ==
  "ebook_" \o str(size) \o "_" \o difficulty \o "_" \o Pad3(i + 1)

\* generate_solution_hint(layout, size): the empty cells and the numbered
\* walls other than '0' are counted
generate_solution_hint(layout, size) ==
  LET white == Cardinality({q \in Positions(size) : layout[q[2]][q[1]] = EMPTY})
      numbered == Cardinality({q \in Positions(size) :
                                 /\ isdigit(layout[q[2]][q[1]])
                                 /\ layout[q[2]][q[1]] # "0"})
  IN  "White cells: " \o str(white) \o ", Numbered cells: " \o str(numbered)

\* the ebook loop writing the id over puzzle['seed']
EbookEntryAsSeed(puzzle, size, difficulty, i) ==
  SetKey([puzzle EXCEPT !.seed = ebook_id(size, difficulty, i)],
         "solution_hint", generate_solution_hint(puzzle.layout, size))

\* the dict puzzle after puzzle['ebook_id'] = ... and
\* puzzle['solution_hint'] = ...
EbookEntry(puzzle, size, difficulty, i) ==
  SetKey(SetKey(puzzle, "ebook_id", ebook_id(size, difficulty, i)),
         "solution_hint", generate_solution_hint(puzzle.layout, size))

InitEbook ==
  /\ generator \in Modules
  /\ sizes \in ListsOf(BatchSizeValues)
  /\ count_per_size \in 0..MaxCount
  /\ difficulties = EbookDifficulties
  /\ i_size = 0
  /\ i_difficulty = 0
  /\ i_count = 0
  /\ ebook_puzzles = << >>
  /\ pc = "ebook_sizes"
  /\ arg_mode = "" /\ results = None /\ all_puzzles = << >> /\ tally = None
  /\ payload = None
  /\ SaveIdle
  /\ SeedIdle
  /\ LoopIdle
  /\ ValidatorIdle
  /\ OtherIdle

\* the frame of a step of generate_ebook_puzzles
EbookFrame ==
  UNCHANGED <<generator, sizes, difficulties, count_per_size, arg_mode, results,
              all_puzzles, tally, payload, save_vars, seed_vars, loop_vars,
              validator_vars, other_vars>>

\* for size in sizes; after the last size: return ebook_puzzles
EbookForSize ==
  /\ pc = "ebook_sizes"
  /\ IF i_size < Len(sizes)
     THEN /\ i_size' = i_size + 1
          /\ i_difficulty' = 0
          /\ pc' = "ebook_difficulties"
     ELSE /\ pc' = "ebook_done"
          /\ UNCHANGED <<i_size, i_difficulty>>
  /\ UNCHANGED <<i_count, ebook_puzzles>>
  /\ EbookFrame

\* for difficulty in ['easy', 'medium', 'hard']
EbookForDifficulty ==
  /\ pc = "ebook_difficulties"
  /\ IF i_difficulty < Len(difficulties)
     THEN /\ i_difficulty' = i_difficulty + 1
          /\ i_count' = 0
          /\ pc' = "ebook_count"
     ELSE /\ pc' = "ebook_sizes"
          /\ UNCHANGED <<i_difficulty, i_count>>
  /\ UNCHANGED <<i_size, ebook_puzzles>>
  /\ EbookFrame

\* for i in range(count_per_size): puzzle = self.generate_puzzle(size,
\* difficulty); if puzzle: the two keys are set on it and it is appended
EbookForCount ==
  /\ pc = "ebook_count"
  /\ IF i_count < count_per_size
     THEN /\ i_count' = i_count + 1
          /\ pc' = pc
          /\ \E puzzle \in EbookOutcomes(generator, sizes[i_size],
                                         difficulties[i_difficulty]) :
               IF puzzle # None
               THEN ebook_puzzles' =
                      Append(ebook_puzzles,
                             EbookEntry(puzzle, sizes[i_size],
                                        difficulties[i_difficulty], i_count))
               ELSE ebook_puzzles' = ebook_puzzles
     ELSE /\ pc' = "ebook_difficulties"
          /\ UNCHANGED <<i_count, ebook_puzzles>>
  /\ UNCHANGED <<i_size, i_difficulty>>
  /\ EbookFrame

NextEbook == EbookForSize \/ EbookForDifficulty \/ EbookForCount

SpecEbook == InitEbook /\ [][NextEbook]_vars

(***************************************************************************)
(* The operations that take a returned puzzle: generate_batch with         *)
(* send_puzzles_to_api, save_puzzle_to_db, generate_ebook_puzzles          *)
(***************************************************************************)
InitSinks == InitBatch \/ InitSave \/ InitEbook

NextSinks == NextBatch \/ NextSave \/ NextEbook

SpecSinks == InitSinks /\ [][NextSinks]_vars

(***************************************************************************)
(* The HTML ebook job service: the handlers of rpi_html_ebook_api.py and   *)
(* the threads they start                                                  *)
(***************************************************************************)
JobIds == {"j1", "j2"}

\* how many POSTs are explored
MaxPosts == 3

\* the requests: a well-formed one for each job_id, and one each with a wrong
\* API key, without a body, with another action, without a job_id
PostInputs ==
  {[job |-> j, kind |-> "ok"] : j \in JobIds} \cup
  {[job |-> "j1", kind |-> k] : k \in {"bad_key", "no_data", "bad_action", "no_job_id"}}

FinalStatuses == {"completed", "uploaded", "failed"}

\* the age of completed_at or uploaded_at or failed_at: less than 24 hours,
\* 24 hours, more; "none" for an entry without any of them
NextAge(age) == IF age = "fresh" THEN "day" ELSE "older"

\* the dict without the keys of S
Without(d, S) == [x \in DOMAIN d \ S |-> d[x]]

InitJobs ==
  /\ generator = "api"
  /\ pc = "serving"
  /\ active_jobs = << >>
  /\ posts = << >>
  /\ job_threads = << >>
  /\ notifications = << >>
  /\ removed_jobs = {}
  /\ LoopIdle
  /\ ValidatorIdle
  /\ StepIdle
  /\ RaceIdle
  /\ CallsIdle
  /\ ServiceIdle
  /\ BatchIdle
  /\ SinkIdle

JobFrame ==
  UNCHANGED <<generator, pc, loop_vars, validator_vars, job_rest, batch_vars, sink_vars>>

\* a POST to /api/html_ebook_generator arrives
Post ==
  /\ Len(posts) < MaxPosts
  /\ \E input \in PostInputs :
       posts' = Append(posts, [job |-> input.job, kind |-> input.kind,
                               at |-> "received", answer |-> ""])
  /\ UNCHANGED <<active_jobs, job_threads, notifications, removed_jobs>>
  /\ JobFrame

Answer(k, code) == [posts EXCEPT ![k].at = "answered", ![k].answer = code]

\* handle_ebook_generation up to the test job_id in api.active_jobs
HandleCheck ==
  \E k \in 1..Len(posts) :
      /\ posts[k].at = "received"
      /\ posts' = CASE posts[k].kind = "bad_key" -> Answer(k, "401")
                    [] posts[k].kind \in {"no_data", "bad_action", "no_job_id"} ->
                         Answer(k, "400")
                    [] posts[k].kind = "ok" /\ posts[k].job \in DOMAIN active_jobs ->
                         Answer(k, "409")
                    [] posts[k].kind = "ok" /\ posts[k].job \notin DOMAIN active_jobs ->
                         [posts EXCEPT ![k].at = "checked"]
      /\ UNCHANGED <<active_jobs, job_threads, notifications, removed_jobs>>
      /\ JobFrame

\* thread = threading.Thread(target=api.generate_html_ebook, ...);
\* thread.start(); return jsonify({... 'status': 'queued' ...})
HandleStart ==
  \E k \in 1..Len(posts) :
      /\ posts[k].at = "checked"
      /\ job_threads' = Append(job_threads, [job |-> posts[k].job, at |-> "start"])
      /\ posts' = Answer(k, "queued")
      /\ UNCHANGED <<active_jobs, notifications, removed_jobs>>
      /\ JobFrame

\* self.active_jobs[job_id] = {'status': 'generating', 'progress': 10}
ThreadBegin ==
  \E t \in 1..Len(job_threads) :
      /\ job_threads[t].at = "start"
      /\ active_jobs' = SetKey(active_jobs, job_threads[t].job,
                               [status |-> "generating", age |-> "none"])
      /\ job_threads' = [job_threads EXCEPT ![t].at = "generating"]
      /\ UNCHANGED <<posts, notifications, removed_jobs>>
      /\ JobFrame

\* except Exception: self.active_jobs[job_id] = {'status': 'failed', ...}
Failed(t) ==
  /\ active_jobs' = SetKey(active_jobs, job_threads[t].job,
                           [status |-> "failed", age |-> "fresh"])
  /\ job_threads' = [job_threads EXCEPT ![t].at = "notify"]

\* the generation, up to self.active_jobs[job_id] = {'status': 'completed',
\* ...}, or an exception on the way; self.active_jobs[job_id]['progress'] = 30
\* raises KeyError when the entry is gone
ThreadGenerate ==
  \E t \in 1..Len(job_threads) :
      /\ job_threads[t].at = "generating"
      /\ \/ /\ job_threads[t].job \in DOMAIN active_jobs
            /\ active_jobs' = SetKey(active_jobs, job_threads[t].job,
                                     [status |-> "completed", age |-> "fresh"])
            /\ job_threads' = [job_threads EXCEPT ![t].at = "completed"]
         \/ Failed(t)
      /\ UNCHANGED <<posts, notifications, removed_jobs>>
      /\ JobFrame

\* self.active_jobs[job_id]['progress'] = 95; cdn_result = self.upload_to_cdn_bunny(...)
\* and, after a successful upload, self.active_jobs[job_id].update({'status':
\* 'uploaded', ..., 'uploaded_at': ...}); KeyError when the entry is gone
ThreadUpload ==
  \E t \in 1..Len(job_threads) :
      /\ job_threads[t].at = "completed"
      /\ IF job_threads[t].job \in DOMAIN active_jobs
         THEN \/ /\ active_jobs' =
                      [active_jobs EXCEPT ![job_threads[t].job] =
                         [status |-> "uploaded",
                          age |-> IF @.age = "none" THEN "fresh" ELSE @.age]]
                 /\ job_threads' = [job_threads EXCEPT ![t].at = "notify"]
              \/ /\ active_jobs' = active_jobs
                 /\ job_threads' = [job_threads EXCEPT ![t].at = "notify"]
         ELSE Failed(t)
      /\ UNCHANGED <<posts, notifications, removed_jobs>>
      /\ JobFrame

\* self.notify_completion(job_id), which posts the status it reads
ThreadNotify ==
  \E t \in 1..Len(job_threads) :
      /\ job_threads[t].at = "notify"
      /\ notifications' =
           Append(notifications,
                  [job |-> job_threads[t].job,
                   status |-> IF job_threads[t].job \in DOMAIN active_jobs
                              THEN active_jobs[job_threads[t].job].status
                              ELSE "unknown"])
      /\ job_threads' = [job_threads EXCEPT ![t].at = "done"]
      /\ UNCHANGED <<active_jobs, posts, removed_jobs>>
      /\ JobFrame

\* time passes for the timestamp of a job; the upload and the notification
\* of a thread end within their timeouts of 60 and 30 seconds
TimePasses ==
  \E j \in JobIds :
      /\ j \in DOMAIN active_jobs
      /\ active_jobs[j].age \in {"fresh", "day"}
      /\ \A t \in 1..Len(job_threads) :
           job_threads[t].job = j => job_threads[t].at \notin {"completed", "notify"}
      /\ active_jobs' = [active_jobs EXCEPT ![j].age = NextAge(@)]
      /\ UNCHANGED <<posts, job_threads, notifications, removed_jobs>>
      /\ JobFrame

\* ToRemove without the test of the age
ToRemoveAnyAge(job_info) ==
  /\ job_info.status \in FinalStatuses
  /\ job_info.age # "none"

\* whether cleanup_old_files puts the entry on jobs_to_remove
ToRemove(job_info) ==
  /\ job_info.status \in FinalStatuses
  /\ job_info.age # "none"
  /\ job_info.age = "older"

\* a POST to /api/cleanup with the API key: the jobs of jobs_to_remove are
\* deleted from active_jobs
Cleanup ==
  /\ LET jobs_to_remove == {j \in DOMAIN active_jobs : ToRemove(active_jobs[j])}
     IN  /\ jobs_to_remove # {}
         /\ active_jobs' = Without(active_jobs, jobs_to_remove)
         /\ removed_jobs' = removed_jobs \cup
              {[job |-> j, status |-> active_jobs[j].status, age |-> active_jobs[j].age] :
                 j \in jobs_to_remove}
  /\ UNCHANGED <<posts, job_threads, notifications>>
  /\ JobFrame

NextJobs ==
  \/ Post
  \/ HandleCheck
  \/ HandleStart
  \/ ThreadBegin
  \/ ThreadGenerate
  \/ ThreadUpload
  \/ ThreadNotify
  \/ TimePasses
  \/ Cleanup

SpecJobs == InitJobs /\ [][NextJobs]_vars

(***************************************************************************)
(* run_polling_loop of rpi_polling_client.py and rpi_polling_client_fixed.py *)
(***************************************************************************)
PollClients == {"rpi_polling_client", "rpi_polling_client_fixed"}

\* how many polls are explored
MaxPolls == 3

\* command_data['command']: the key is missing (get returns None), the value
\* is a string, or it is a dict with an unknown action, with an action that
\* raises or fails, or with an action that succeeds
CommandKinds == {"missing", "not_a_dict", "unknown", "failing", "ok"}
CommandIds == {"c1", "c2"}
CommandData == [command : CommandKinds, command_id : CommandIds]

\* whether command.get('action') raises AttributeError
HasNoGet(command) == command \in {"missing", "not_a_dict"}

InitPolling ==
  /\ generator = "api"
  /\ pc = "polling"
  /\ poll_client \in PollClients
  /\ poll_pc = "status"
  /\ command_data = None
  /\ executions = 0
  /\ sends = << >>
  /\ polls = 0
  /\ loop_end = ""
  /\ LoopIdle
  /\ ValidatorIdle
  /\ StepIdle
  /\ RaceIdle
  /\ CallsIdle
  /\ JobIdle
  /\ ServerIdle
  /\ BatchIdle
  /\ SinkIdle

PollFrame ==
  UNCHANGED <<generator, pc, poll_client, loop_vars, validator_vars, poll_rest, batch_vars,
              sink_vars>>

\* self.send_status_update(), which catches every Exception
SendStatusUpdate ==
  /\ poll_pc = "status"
  /\ poll_pc' = "check"
  /\ UNCHANGED <<command_data, executions, sends, polls, loop_end>>
  /\ PollFrame

\* command_data = self.check_for_commands(); if command_data:
\*     command = command_data.get('command'); command_id = ...
CheckForCommands ==
  /\ poll_pc = "check"
  /\ polls < MaxPolls
  /\ polls' = polls + 1
  /\ executions' = 0
  /\ sends' = << >>
  /\ \/ /\ command_data' = None
        /\ poll_pc' = "sleep"
     \/ /\ command_data' \in CommandData
        /\ poll_pc' = IF poll_client = "rpi_polling_client_fixed" THEN "log" ELSE "execute"
  /\ loop_end' = loop_end
  /\ PollFrame

\* rpi_polling_client_fixed only:
\* logging.info(f"Executing command_id={command_id} action={command.get('action')}")
\* an AttributeError goes to except Exception of the loop, which sleeps
LogCommand ==
  /\ poll_pc = "log"
  /\ poll_pc' = IF HasNoGet(command_data.command) THEN "sleep" ELSE "execute"
  /\ UNCHANGED <<command_data, executions, sends, polls, loop_end>>
  /\ PollFrame

\* result = self.execute_command(command), which catches every Exception
\* and returns a dict
ExecuteCommand ==
  /\ poll_pc = "execute"
  /\ executions' = executions + 1
  /\ poll_pc' = "send"
  /\ UNCHANGED <<command_data, sends, polls, loop_end>>
  /\ PollFrame

\* self.send_command_result(command_id, result), which returns True or False
SendCommandResult ==
  /\ poll_pc = "send"
  /\ \E sent_ok \in BOOLEAN :
       sends' = Append(sends, [command_id |-> command_data.command_id, sent_ok |-> sent_ok])
  /\ poll_pc' = "sleep"
  /\ UNCHANGED <<command_data, executions, polls, loop_end>>
  /\ PollFrame

\* time.sleep(self.poll_interval), then the next iteration
Sleep ==
  /\ poll_pc = "sleep"
  /\ poll_pc' = "status"
  /\ UNCHANGED <<command_data, executions, sends, polls, loop_end>>
  /\ PollFrame

\* except KeyboardInterrupt: break
Interrupt ==
  /\ poll_pc \in {"status", "check", "log", "execute", "send", "sleep"}
  /\ poll_pc' = "stopped"
  /\ loop_end' = "KeyboardInterrupt"
  /\ UNCHANGED <<command_data, executions, sends, polls>>
  /\ PollFrame

NextPolling ==
  \/ SendStatusUpdate
  \/ CheckForCommands
  \/ LogCommand
  \/ ExecuteCommand
  \/ SendCommandResult
  \/ Sleep
  \/ Interrupt

SpecPolling == InitPolling /\ [][NextPolling]_vars

(***************************************************************************)
(* The admin API server: the handlers of RPiAPIHandler                     *)
(***************************************************************************)
\* strings as sequences of characters
API_KEY == <<"r", "p", "i", "_", "c", "o", "n", "t", "r", "o", "l", "_", "k", "e", "y", "_", "2", "0", "2", "4">>
Bearer == <<"B", "e", "a", "r", "e", "r", " ">>

\* s.startswith(prefix) and s[n:]
startswith(s, prefix) ==
  Len(s) >= Len(prefix) /\ SubSeq(s, 1, Len(prefix)) = prefix
SliceFrom(s, n) == SubSeq(s, n + 1, Len(s))

\* validate_auth for a test of the prefix alone
validate_auth_prefix(auth_header) == startswith(auth_header, Bearer)

\* auth_header = self.headers.get('Authorization', ''); ...
validate_auth(auth_header) ==
  IF ~startswith(auth_header, Bearer) THEN FALSE
  ELSE SliceFrom(auth_header, 7) = API_KEY

\* the Authorization headers explored: a scheme followed by a token; the
\* empty header stands for a request without the header
Schemes ==
  {<< >>, Bearer, <<"b", "e", "a", "r", "e", "r", " ">>, <<"B", "e", "a", "r", "e", "r">>, <<"B", "a", "s", "i", "c", " ">>, <<" ", "B", "e", "a", "r", "e", "r", " ">>,
   <<"B", "e", "a", "r", "e", "r", " ", " ">>}
Tokens ==
  {<< >>, API_KEY, SubSeq(API_KEY, 1, Len(API_KEY) - 1), API_KEY \o <<"x">>,
   API_KEY \o <<" ">>, <<"R", "P", "I", "_", "C", "O", "N", "T", "R", "O", "L", "_", "K", "E", "Y", "_", "2", "0", "2", "4">>,
   <<"s", "h", "r", "i", "n", "e", "_", "a", "d", "m", "i", "n", "_", "k", "e", "y", "_", "2", "0", "2", "4">>}
AuthorizationHeaders == {scheme \o token : scheme \in Schemes, token \in Tokens}

Handlers == {"handle_execute", "handle_status", "handle_logs", "handle_stats"}
\* the body of a POST: JSON with a command, or something json.loads rejects
Bodies == {"ping", "restart_service", "not_json"}

InitServer ==
  /\ generator = "api"
  /\ pc = "request"
  /\ request \in [handler : Handlers, authorization : AuthorizationHeaders, body : Bodies]
  /\ response = ""
  /\ body_read = FALSE
  /\ started = << >>
  /\ invoked = {}
  /\ LoopIdle
  /\ ValidatorIdle
  /\ StepIdle
  /\ RaceIdle
  /\ CallsIdle
  /\ JobIdle
  /\ PollIdle
  /\ BatchIdle
  /\ SinkIdle

ServerFrame ==
  UNCHANGED <<generator, request, loop_vars, validator_vars, server_rest, batch_vars,
              sink_vars>>

\* handle_execute: 401, or the body is read and parsed and the thread started
handle_execute ==
  /\ pc = "request"
  /\ request.handler = "handle_execute"
  /\ IF ~validate_auth(request.authorization)
     THEN /\ response' = "401"
          /\ UNCHANGED <<body_read, started>>
     ELSE /\ body_read' = TRUE
          /\ IF request.body = "not_json"
             THEN /\ response' = "500"
                  /\ started' = started
             ELSE /\ response' = "200"
                  /\ started' = Append(started, request.body)
  /\ invoked' = invoked
  /\ pc' = "answered"
  /\ ServerFrame

\* handle_status, handle_logs, handle_stats: 401, or the result of
\* get_status, get_logs, get_stats is sent
handle_get ==
  /\ pc = "request"
  /\ request.handler \in {"handle_status", "handle_logs", "handle_stats"}
  /\ IF ~validate_auth(request.authorization)
     THEN /\ response' = "401"
          /\ invoked' = invoked
     ELSE /\ response' = "200"
          /\ invoked' = invoked \cup
               {CASE request.handler = "handle_status" -> "get_status"
                  [] request.handler = "handle_logs" -> "get_logs"
                  [] request.handler = "handle_stats" -> "get_stats"}
  /\ UNCHANGED <<body_read, started>>
  /\ pc' = "answered"
  /\ ServerFrame

\* the background thread: execute_command(command, params)
execute_command ==
  /\ pc = "answered"
  /\ started # << >>
  /\ invoked' = invoked \cup {started[1]}
  /\ pc' = "executed"
  /\ UNCHANGED <<response, body_read, started>>
  /\ ServerFrame

NextServer == handle_execute \/ handle_get \/ execute_command

SpecServer == InitServer /\ [][NextServer]_vars

(***************************************************************************)
(* Properties of the generation loop                                       *)
(***************************************************************************)
\* the call has returned a puzzle
ReturnedPuzzle == pc = "returned" /\ returned # None

\* the empty cells among the four orthogonal neighbours of <<x, y>>
AdjacentEmpty(l, x, y) ==
  {q \in {<<x - 1, y>>, <<x + 1, y>>, <<x, y - 1>>, <<x, y + 1>>} :
     /\ q[1] \in 1..Len(l) /\ q[2] \in 1..Len(l)
     /\ l[q[2]][q[1]] = "."}

\* the positions of the numbered walls of grid l
NumberedWalls(l) ==
  {q \in (1..Len(l)) \X (1..Len(l)) : l[q[2]][q[1]] \in {"0", "1", "2", "3", "4"}}

\* C1: in every puzzle generate_puzzle returns, in either class, each
\* numbered wall carries a number that is at most the number of its
\* orthogonally adjacent empty cells
C1_NumbersAchievable ==
  ReturnedPuzzle =>
    \A q \in NumberedWalls(returned.layout) :
      DigitValue[returned.layout[q[2]][q[1]]]
        <= Cardinality(AdjacentEmpty(returned.layout, q[1], q[2]))

\* C1 witness: a returned puzzle with a wall numbered 2 that has exactly
\* two adjacent empty cells
C1_Witness ==
  /\ ReturnedPuzzle
  /\ \E q \in NumberedWalls(returned.layout) :
       /\ returned.layout[q[2]][q[1]] = "2"
       /\ Cardinality(AdjacentEmpty(returned.layout, q[1], q[2])) = 2

\* the budgets lie between 50 and 300 and do not decrease with the difficulty
BudgetsOrdered ==
  \A g \in Modules :
    /\ 50 <= max_attempts(g, "easy")
    /\ max_attempts(g, "easy") <= max_attempts(g, "medium")
    /\ max_attempts(g, "medium") <= max_attempts(g, "hard")
    /\ max_attempts(g, "hard") <= max_attempts(g, "expert")
    /\ max_attempts(g, "expert") <= 300

\* what is left of the call: the iterations not begun, counted twice, less
\* one once the layout of an iteration is sampled; 0 after the return
Remaining ==
  IF pc = "returned" THEN 0
  ELSE 2 * (max_attempts(generator, arg_difficulty) - attempts)
         + (IF pc = "check" THEN 2 ELSE 1)

\* C2: every call of generate_puzzle terminates (while it has not returned
\* it can take a step, and every step lowers Remaining, which is never
\* negative); it samples at most max_attempts times, a budget between 50
\* and 300 that does not decrease from easy to expert; it returns the
\* puzzle of the first layout that passes the checks without sampling
\* again; and it returns None only when exactly max_attempts layouts were
\* sampled and each was rejected
C2_BoundedAttempts ==
  /\ [](/\ BudgetsOrdered
        /\ attempts <= max_attempts(generator, arg_difficulty)
        /\ Remaining >= 0
        /\ (pc # "returned" => ENABLED Next)
        /\ ((pc = "returned" /\ returned = None)
              => attempts = max_attempts(generator, arg_difficulty)))
  /\ [][/\ ((pc = "check" /\ PassesChecks(generator, sampled, arg_size, arg_difficulty))
              => (/\ pc' = "returned"
                  /\ returned' # None
                  /\ returned'.layout = sampled
                  /\ attempts' = attempts))
         /\ ((pc = "check" /\ ~PassesChecks(generator, sampled, arg_size, arg_difficulty))
              => (pc' = "loop" /\ returned' = None))
         /\ pc # "returned"
         /\ Remaining' < Remaining]_vars

\* C2 witness: None returned after the 300 attempts of an expert call
C2_Witness ==
  /\ pc = "returned"
  /\ returned = None
  /\ attempts = 300
  /\ sampled # NoLayout

\* the cells of grid l that are walls, numbered or not
WallKind(l) ==
  {q \in (1..Len(l)) \X (1..Len(l)) : l[q[2]][q[1]] # "."}

\* C3: in every puzzle the API class returns, the walls, plain and numbered
\* together, are at least 5% and at least 15% and at most 50% of the cells
C3_WallRatioBand ==
  (generator = "api" /\ ReturnedPuzzle) =>
    LET walls == Cardinality(WallKind(returned.layout))
        total == returned.size * returned.size
    IN  /\ 100 * walls >= 5 * total
        /\ 100 * walls >= 15 * total
        /\ 2 * walls <= total

\* C6: in every grid the sampler returns, in either class, each numbered
\* wall carries a value k with 1 <= k <= min(capacity, 4), capacity being
\* the number of its adjacent empty cells: never 0, and no number on a wall
\* of capacity 0
C6_SamplerNumbers ==
  pc = "check" =>
    \A q \in NumberedWalls(sampled) :
      LET k == DigitValue[sampled[q[2]][q[1]]]
          capacity == Cardinality(AdjacentEmpty(sampled, q[1], q[2]))
      IN  /\ 1 <= k
          /\ k <= capacity
          /\ k <= 4

\* C7: a call with a difficulty that is none of easy, medium, hard, expert
\* raises an error: it samples no layout and returns no puzzle
C7_UnknownDifficultyRaises ==
  arg_difficulty \notin {"easy", "medium", "hard", "expert"} =>
    (sampled = NoLayout /\ ~ReturnedPuzzle)

\* C7 as amended: a call with such a difficulty runs the loop with the
\* budget of medium and returns either None, after exactly that many
\* attempts, or a puzzle labelled with the difficulty it was invoked with
C7_UnknownDifficultyFallsBack ==
  arg_difficulty \notin {"easy", "medium", "hard", "expert"} =>
    /\ attempts <= max_attempts(generator, "medium")
    /\ (pc = "returned" /\ returned = None)
         => attempts = max_attempts(generator, "medium")
    /\ ReturnedPuzzle => returned.difficulty = arg_difficulty

\* C7 witnesses: a puzzle labelled with the unknown difficulty is returned
C7_Witness ==
  /\ ReturnedPuzzle
  /\ returned.difficulty = UnknownDifficulty
  /\ generator = "api"

\* C9: a call with size = 1 returns None, in either class
C9_SizeOneReturnsNone ==
  (arg_size = 1 /\ pc = "returned") => returned = None

\* the characters of a hexadecimal digest
HexDigits == {"0", "1", "2", "3", "4", "5", "6", "7", "8", "9",
              "a", "b", "c", "d", "e", "f"}

\* C10: every puzzle generate_puzzle returns carries the seed generate_seed
\* gives for its layout, a string of exactly 12 hexadecimal characters
C10_SeedOfLayout ==
  ReturnedPuzzle =>
    /\ returned.seed = generate_seed(returned.layout)
    /\ Len(returned.seed) = 12
    /\ \A i \in 1..12 : SubSeq(returned.seed, i, i) \in HexDigits

\* C10 witness: the puzzle returned for the grid [[0, 'X'], ['2', 0]], whose
\* md5 digest starts with 611f398662fd
C10_Witness ==
  /\ ReturnedPuzzle
  /\ returned.layout = << <<".", "X">>, <<"2", ".">> >>
  /\ returned.seed = "611f398662fd"

(***************************************************************************)
(* Properties of the structural validator                                  *)
(***************************************************************************)
\* the cells of the validated grid that hold a digit string
GridNumbers ==
  {q \in (1..grid_size) \X (1..grid_size) :
     grid[q[2]][q[1]] \in {"0", "1", "2", "3", "4", "5"}}

\* every cell of the validated grid is 0, 'X' or a digit string of value 0..4
GridCellsLegal ==
  \A q \in (1..grid_size) \X (1..grid_size) :
    grid[q[2]][q[1]] \in {".", "X", "0", "1", "2", "3", "4"}

\* no number of the validated grid exceeds the adjacent empty cells
GridNumbersAchievable ==
  \A q \in GridNumbers :
    DigitValue[grid[q[2]][q[1]]] <= Cardinality(AdjacentEmpty(grid, q[1], q[2]))

\* C8: is_valid_akari_layout returns False for every grid with a numbered
\* wall whose number exceeds its adjacent empty cells, and True only when
\* every cell is 0, 'X' or a digit string of value 0..4 and every number is
\* achievable
C8_ValidatorChecksCapacity ==
  pc = "validated" =>
    /\ ~GridNumbersAchievable => verdict = FALSE
    /\ verdict = TRUE => (GridCellsLegal /\ GridNumbersAchievable)

\* C8 as amended: is_valid_akari_layout returns True exactly when every
\* cell is 0, 'X' or a digit string of value 0..4, whatever the adjacent
\* cells are
C8_ValidatorChecksSymbols ==
  pc = "validated" => (verdict = TRUE <=> GridCellsLegal)

\* C8 witness: a grid with a wall numbered 4 in a corner is found valid
C8_Witness ==
  /\ pc = "validated"
  /\ verdict = TRUE
  /\ grid_size = 2
  /\ grid[1][1] = "4"
  /\ ~GridNumbersAchievable

(***************************************************************************)
(* Properties of generate_batch                                            *)
(***************************************************************************)
\* |sizes| * |difficulties| * count_per_size
BatchCalls == Len(sizes) * Len(difficulties) * count_per_size

\* the value of key k of dict d, 0 when d has no such key
ValueAt(d, k) == IF k \in DOMAIN d THEN d[k] ELSE 0

\* the sum of the values of dict d
RECURSIVE SumOver(_, _)
SumOver(d, keys) ==
  IF keys = {} THEN 0
  ELSE LET k == CHOOSE x \in keys : TRUE IN d[k] + SumOver(d, keys \ {k})
SumValues(d) == SumOver(d, DOMAIN d)

\* generate_puzzle was invoked count_per_size times in every iteration of
\* the cross product of sizes and difficulties
CalledCountTimes ==
  \A p \in (1..Len(sizes)) \X (1..Len(difficulties)) : tally.calls[p] = count_per_size

\* C4: when generate_batch returns, generate_puzzle was invoked
\* count_per_size times per (size, difficulty), total_generated + failed is
\* |sizes| * |difficulties| * count_per_size and failed is the number of
\* None returns, whatever the sink did
C4_FailedCountsNone ==
  pc = "done" =>
    /\ CalledCountTimes
    /\ results.total_generated + results.failed = BatchCalls
    /\ results.failed = tally.none

\* C4 as amended: when generate_batch returns, generate_puzzle was invoked
\* count_per_size times per (size, difficulty).  In the API class
\* total_generated + failed is |sizes| * |difficulties| * count_per_size,
\* failed is the number of None returns and the send changes neither.  In
\* the database class failed is the number of None returns plus the number
\* of saves that failed, so that total_saved + failed is
\* |sizes| * |difficulties| * count_per_size
C4_FailedCountsNoneAndUnsaved ==
  /\ [](pc = "done" =>
          /\ CalledCountTimes
          /\ results.total_generated + tally.none = BatchCalls
          /\ IF generator = "api"
             THEN /\ results.failed = tally.none
                  /\ results.total_generated + results.failed = BatchCalls
             ELSE /\ results.failed = tally.none + tally.unsaved
                  /\ results.total_saved + results.failed = BatchCalls)
  /\ [][pc = "send" => /\ results'.total_generated = results.total_generated
                       /\ results'.failed = results.failed]_vars

\* C4 witness: a batch of the database class has returned after a None
\* return and a failed save
C4_Witness ==
  /\ pc = "done"
  /\ generator = "db"
  /\ tally.none > 0
  /\ tally.unsaved > 0
  /\ results.total_saved > 0

\* C5: when generate_batch returns, by_size[s] is the number of puzzles
\* accepted for size s and by_difficulty[d] the number accepted for
\* difficulty d during the whole batch, and the values of each sum to
\* total_generated
C5_BreakdownsMatch ==
  pc = "done" =>
    /\ \A n \in Range(sizes) : ValueAt(results.by_size, n) = tally.by_size[n]
    /\ \A d \in Range(difficulties) :
         ValueAt(results.by_difficulty, d) = tally.by_difficulty[d]
    /\ SumValues(results.by_size) = results.total_generated
    /\ SumValues(results.by_difficulty) = results.total_generated

C13_PuzzleShape ==
  ReturnedPuzzle =>
    /\ DOMAIN returned = {"layout", "seed", "size", "difficulty"}
    /\ returned.size = arg_size
    /\ returned.difficulty = arg_difficulty
    /\ DOMAIN returned.layout = 1..arg_size
    /\ \A y \in 1..arg_size :
         /\ DOMAIN returned.layout[y] = 1..arg_size
         /\ \A x \in 1..arg_size :
              returned.layout[y][x] \in {EMPTY, WALL, "0", "1", "2", "3", "4"}

\* C13: a puzzle was returned to a call with a difficulty outside the table,
\* and its layout has a wall numbered '0'
C13_Witness ==
  /\ ReturnedPuzzle
  /\ arg_difficulty = UnknownDifficulty
  /\ \E q \in Positions(arg_size) : returned.layout[q[2]][q[1]] = "0"

\* C14: a puzzle returned by the API class has at least size empty cells and
\* at most 85 % of its cells are empty
C14_WhiteCount ==
  (generator = "api" /\ ReturnedPuzzle) =>
    LET white == white_cells(returned.layout, returned.size)
    IN  /\ white >= returned.size
        /\ white * 100 <= 85 * returned.size * returned.size

\* C14: the API class returned a puzzle with exactly size empty cells
C14_Witness ==
  /\ generator = "api"
  /\ ReturnedPuzzle
  /\ white_cells(returned.layout, returned.size) = returned.size

\* the numbers on the numbered walls of a layout
NumberValues(l, size) == {int(l[q[2]][q[1]]) : q \in numbered_cells(l, size)}

\* C15: a puzzle returned by the API class has between 1 and 2 * size
\* numbered walls, and from size 8 on a number of 2 or more and two or more
\* distinct numbers
C15_NumberedVariety ==
  (generator = "api" /\ ReturnedPuzzle) =>
    LET total_numbered == Cardinality(numbered_cells(returned.layout, returned.size))
        values == NumberValues(returned.layout, returned.size)
    IN  /\ total_numbered >= 1
        /\ total_numbered <= 2 * returned.size
        /\ returned.size >= 8 =>
             /\ \E num \in values : num >= 2
             /\ Cardinality(values) >= 2

\* C15: a puzzle of side 8 with exactly 16 numbered walls was returned
C15_Witness ==
  /\ generator = "api"
  /\ ReturnedPuzzle
  /\ returned.size = 8
  /\ Cardinality(numbered_cells(returned.layout, returned.size)) = 16

\* the least count of numbered walls and the least share of empty cells, in
\* percent, C16 states for a difficulty
MinNumbered(difficulty) ==
  CASE difficulty = "easy" -> 1 [] difficulty = "medium" -> 2
    [] difficulty = "hard" -> 3 [] difficulty = "expert" -> 4
MinWhitePercent(difficulty) ==
  CASE difficulty = "easy" -> 50 [] difficulty = "medium" -> 40
    [] difficulty = "hard" -> 30 [] difficulty = "expert" -> 25

\* C16: a puzzle returned by the API class for easy, medium, hard or expert
\* has at least 1, 2, 3 or 4 numbered walls and at least 50, 40, 30 or 25
\* percent of empty cells
C16_DifficultyMinima ==
  (generator = "api" /\ ReturnedPuzzle /\ returned.difficulty \in Difficulties) =>
    /\ Cardinality(numbered_cells(returned.layout, returned.size))
         >= MinNumbered(returned.difficulty)
    /\ white_cells(returned.layout, returned.size) * 100
         >= MinWhitePercent(returned.difficulty) * returned.size * returned.size

\* C16: a hard puzzle of side 8 was returned with 20 empty cells, the least
\* count that is 30 percent of 64
C16_Witness ==
  /\ generator = "api"
  /\ ReturnedPuzzle
  /\ returned.difficulty = "hard"
  /\ returned.size = 8
  /\ white_cells(returned.layout, returned.size) = 20

(***************************************************************************)
(* Properties of generate_seed                                             *)
(***************************************************************************)
\* the cells in which two grids of side n differ
DifferingCells(g, h, n) == {q \in Positions(n) : g[q[2]][q[1]] # h[q[2]][q[1]]}

C18_SentListIsAccepted ==
  /\ []((generator = "api" /\ pc \in {"sizes", "difficulties", "count", "send", "done"}) =>
          Len(all_puzzles) = results.total_generated)
  /\ [][(generator = "api" /\ pc = "count" /\ i_count' = i_count + 1) =>
          \/ /\ tally'.none = tally.none + 1
             /\ all_puzzles' = all_puzzles
          \/ /\ tally'.none = tally.none
             /\ Len(all_puzzles') = Len(all_puzzles) + 1
             /\ SubSeq(all_puzzles', 1, Len(all_puzzles)) = all_puzzles
             /\ all_puzzles'[Len(all_puzzles')] \in
                  GenerateOutcomes(generator, sizes[i_size], difficulties[i_difficulty])
                    \ {None}]_vars
  /\ [][(generator = "api" /\ ~(pc = "count" /\ i_count' = i_count + 1)) =>
          all_puzzles' = all_puzzles]_vars
  /\ []((generator = "api" /\ pc = "done") =>
          IF all_puzzles = << >> THEN payload = None
          ELSE /\ Len(payload) = Len(all_puzzles)
               /\ \A j \in 1..Len(all_puzzles) :
                    /\ payload[j].layout = all_puzzles[j].layout
                    /\ payload[j].seed = all_puzzles[j].seed
                    /\ payload[j].size = all_puzzles[j].size
                    /\ payload[j].difficulty = all_puzzles[j].difficulty)

\* C18: a batch of the API class has posted two different puzzles after a
\* call of generate_puzzle that returned None
C18_Witness ==
  /\ generator = "api"
  /\ pc = "done"
  /\ all_puzzles # << >>
  /\ tally.none > 0
  /\ Len(payload) >= 2
  /\ payload[1].layout # payload[2].layout

\* the rows of the table a call with the arguments of save_call selects
StoredFor(rows, call) == Selected(rows, call.mode, call.used, call.puzzle.seed)

\* the table has at most one 'akari' row per (mode, date, seed)
OneRowPerKey ==
  \A r \in BagToSet(table) :
    r.game = "akari" =>
      /\ CopiesIn(r, table) = 1
      /\ Selected(table, r.mode, r.date, r.seed) = {r}

\* C17: the table has at most one 'akari' row per (mode, date, seed); a call
\* whose key is stored inserts nothing and returns True, a call whose key
\* is absent inserts exactly one row
C17_InsertIfAbsent ==
  /\ [](pc = "save" => OneRowPerKey)
  /\ [][pc = "save" =>
          IF StoredFor(table, save_call') # {}
          THEN table' = table /\ save_result' = "True"
          ELSE BagCardinality(table') = BagCardinality(table) + 1]_vars

\* C17 as amended: the table has at most one 'akari' row per (mode, date,
\* seed); a call that returns True inserts nothing when its key is stored
\* and exactly one row, with its key, when it is absent; a call that ends
\* otherwise inserts nothing when its key is stored and at most one row,
\* with its key, when it is absent
C17_OneRowPerKey ==
  /\ [](pc = "save" => OneRowPerKey)
  /\ [][pc = "save" =>
          IF StoredFor(table, save_call') # {}
          THEN table' = table
          ELSE \/ table' = table /\ save_result' # "True"
               \/ /\ BagCardinality(table') = BagCardinality(table) + 1
                  /\ Cardinality(StoredFor(table', save_call')) = 1]_vars

\* C17: a call found its key stored and returned True with two rows in the
\* table
C17_Witness ==
  /\ pc = "save"
  /\ save_result = "True"
  /\ BagCardinality(table) = 2
  /\ connection = "open"
  /\ save_call # None
  /\ StoredFor(table, save_call) # {}

\* C19: a call of save_puzzle_to_db ends by returning True or False,
\* whatever the database does, and no exception of a sink leaves
\* generate_batch before its loops are done
C19_SinkFailureNeverAborts ==
  /\ save_result \in {"None", "True", "False"}
  /\ pc # "raised"

\* the fields of the dict generate_puzzle returns
PuzzleFields == {"layout", "seed", "size", "difficulty"}

\* p is a dict as generate_puzzle returns it
AsReturned(p) ==
  /\ DOMAIN p = PuzzleFields
  /\ p = Puzzle(p.layout, p.size, p.difficulty)

\* the puzzle objects the operations hold: the elements of all_puzzles and
\* of ebook_puzzles and the argument of save_puzzle_to_db
HeldPuzzles ==
  Range(all_puzzles) \cup Range(ebook_puzzles)
    \cup (IF pc = "save" /\ save_call # None THEN {save_call.puzzle} ELSE {})

\* C11: a puzzle object held by generate_batch, save_puzzle_to_db,
\* send_puzzles_to_api or generate_ebook_puzzles is as generate_puzzle
\* returned it: the four fields with their values, none added or removed
C11_PuzzleNeverMutated == \A p \in HeldPuzzles : AsReturned(p)

\* C11 as amended: generate_batch, send_puzzles_to_api and save_puzzle_to_db
\* leave a puzzle as generate_puzzle returned it; generate_ebook_puzzles
\* sets the keys ebook_id and solution_hint on the puzzle object before
\* appending it and leaves its layout, seed, size and difficulty; no
\* element of either list changes once appended
C11_OnlyEbookAddsFields ==
  /\ [](\A p \in HeldPuzzles \ Range(ebook_puzzles) : AsReturned(p))
  /\ [](\A e \in Range(ebook_puzzles) :
          /\ DOMAIN e = PuzzleFields \cup {"ebook_id", "solution_hint"}
          /\ AsReturned([f \in PuzzleFields |-> e[f]]))
  /\ [][/\ SubSeq(all_puzzles', 1, Len(all_puzzles)) = all_puzzles
        /\ SubSeq(ebook_puzzles', 1, Len(ebook_puzzles)) = ebook_puzzles]_vars

\* C11: generate_ebook_puzzles has returned a list whose second element was
\* accepted in the second iteration for size 2 and easy
C11_Witness ==
  /\ pc = "ebook_done"
  /\ Len(ebook_puzzles) >= 2
  /\ ebook_puzzles[2].ebook_id = "ebook_2_easy_002"
  /\ ebook_puzzles[2].size = 2

\* C21: in every attempt the calls made so far are the first calls of
\* is_valid_akari_layout, is_solvable, (_validate_puzzle_quality,) generate_seed
\* in this order, and every call but the last one made returned True: no check
\* follows a check that returned False, and generate_seed follows only checks
\* that all returned True
CallOrder == CheckOrder(generator) \o <<"generate_seed">>

C21_FailFastOrder ==
  /\ Len(evaluated) <= Len(CallOrder)
  /\ \A k \in 1..Len(evaluated) : evaluated[k].call = CallOrder[k]
  /\ \A k \in 1..(Len(evaluated) - 1) : evaluated[k].value
  /\ (pc = "returned" /\ returned # None)
       => /\ Len(evaluated) = Len(CallOrder)
          /\ returned.seed = generate_seed(sampled)

\* an attempt of the API class stopped at is_solvable, which returned False
C21_Witness ==
  /\ generator = "api"
  /\ pc = "loop"
  /\ Len(evaluated) = 2
  /\ evaluated[2].call = "is_solvable"
  /\ ~evaluated[2].value

\* the empty cells of a layout, and those orthogonally adjacent to a numbered wall
EmptyCells(layout, size) ==
  {q \in Positions(size) : layout[q[2]][q[1]] = EMPTY}
ConnectedCells(layout, size) ==
  {q \in EmptyCells(layout, size) :
     \E n \in Neighbours(q[1], q[2], size) : isdigit(layout[n[2]][n[1]])}
\* the minimum ratio, in tenths
MinRatioTenths(size) == IF size <= 6 THEN 2 ELSE 3

\* C22 as stated: in every puzzle returned by the API class the fraction of
\* empty cells adjacent to a numbered wall strictly exceeds the minimum ratio
C22_RatioStrictlyExceeded ==
  (generator = "api" /\ pc = "returned" /\ returned # None)
    => Cardinality(ConnectedCells(returned.layout, returned.size)) * 10
         > Cardinality(EmptyCells(returned.layout, returned.size))
             * MinRatioTenths(returned.size)

\* C22 amended: in every puzzle returned by the API class the fraction of empty
\* cells adjacent to a numbered wall is at least the minimum ratio, and there
\* is at least one empty cell; a fraction equal to the minimum is accepted
C22_RatioAtLeast ==
  (generator = "api" /\ pc = "returned" /\ returned # None)
    => /\ EmptyCells(returned.layout, returned.size) # {}
       /\ Cardinality(ConnectedCells(returned.layout, returned.size)) * 10
            >= Cardinality(EmptyCells(returned.layout, returned.size))
                 * MinRatioTenths(returned.size)

\* a returned puzzle whose fraction equals the minimum: five empty cells, one
\* of them adjacent to a numbered wall
C22_Witness ==
  /\ generator = "api" /\ pc = "returned" /\ returned # None
  /\ Cardinality(ConnectedCells(returned.layout, returned.size)) * 10
       = Cardinality(EmptyCells(returned.layout, returned.size))
           * MinRatioTenths(returned.size)

\* easy < medium < hard < expert
Rank(difficulty) ==
  CASE difficulty = "easy" -> 1 [] difficulty = "medium" -> 2
    [] difficulty = "hard" -> 3 [] difficulty = "expert" -> 4

\* C23 as stated: a grid that _validate_puzzle_quality accepts for a
\* difficulty is accepted for every easier difficulty
C23_MonotoneInDifficulty ==
  pc = "validated"
    => \A d \in Difficulties : \A e \in Difficulties :
         (Rank(e) < Rank(d) /\ verdict[d]) => verdict[e]

\* C23 amended: a grid accepted for a difficulty is accepted for an easier
\* difficulty exactly when its share of empty cells reaches the minimum of the
\* easier difficulty, and for a harder difficulty exactly when its count of
\* numbered walls reaches the minimum of the harder difficulty
C23_MonotoneUpToMinima ==
  pc = "validated"
    => \A d \in Difficulties : \A e \in Difficulties :
         verdict[d] =>
           /\ Rank(e) < Rank(d) =>
                (verdict[e] <=> white_cells(grid, grid_size) * 100
                                  >= grid_size * grid_size * MinWhitePercent(e))
           /\ Rank(e) > Rank(d) =>
                (verdict[e] <=> Cardinality(numbered_cells(grid, grid_size))
                                  >= MinNumbered(e))

\* a grid of side 3 accepted for hard and rejected for medium: three empty
\* cells are 30 percent of the nine cells and not 40 percent
C23_Witness ==
  /\ pc = "validated"
  /\ grid_size = 3
  /\ verdict["hard"] /\ ~verdict["medium"]

\* C24: whatever the interleaving of the two calls, the table holds at most
\* one row for the (game, mode, date, seed) they were invoked with
C24_AtMostOneRowUnderRace ==
  pc = "race"
    => BagCardinality(table) <= 1

\* the positions of call_log that hold a call of name
CallsOf(name) == {k \in 1..Len(call_log) : call_log[k].call = name}
FailedSaves == {k \in CallsOf("save_puzzle_to_db") : call_log[k].outcome # "True"}
NoneReturns == {k \in CallsOf("generate_puzzle") : call_log[k].outcome = "None"}
AcceptedReturns == {k \in CallsOf("generate_puzzle") : call_log[k].outcome = "puzzle"}

\* C25: the database class calls save_puzzle_to_db once per accepted puzzle,
\* right after the generate_puzzle call that returned it and before the
\* next one; the API class calls send_puzzles_to_api at most once, after
\* the last generate_puzzle call and only when a puzzle was accepted; and
\* every failed sink call is recorded in results (in failed, or as api_error)
C25_SinkCalledOnceAndRecorded ==
  /\ generator = "db" =>
       /\ CallsOf("send_puzzles_to_api") = {}
       /\ \A k \in CallsOf("save_puzzle_to_db") :
            /\ k > 1
            /\ call_log[k - 1].call = "generate_puzzle"
            /\ call_log[k - 1].outcome = "puzzle"
            /\ call_log[k - 1].seed = call_log[k].seed
       /\ \A k \in AcceptedReturns :
            IF k = Len(call_log) THEN pc = "save"
            ELSE call_log[k + 1].call = "save_puzzle_to_db"
       /\ pc # "save" => results.failed = Cardinality(NoneReturns) + Cardinality(FailedSaves)
  /\ generator = "api" =>
       /\ CallsOf("save_puzzle_to_db") = {}
       /\ Cardinality(CallsOf("send_puzzles_to_api")) <= 1
       /\ \A k \in CallsOf("send_puzzles_to_api") :
            /\ k = Len(call_log)
            /\ pc = "done"
            /\ AcceptedReturns # {}
            /\ call_log[k].outcome = "False" => "api_error" \in DOMAIN results
       /\ (pc = "done" /\ AcceptedReturns # {}) => CallsOf("send_puzzles_to_api") # {}

(***************************************************************************)
(* Properties of the HTML ebook job service                                *)
(***************************************************************************)
ThreadsOf(j) == {t \in 1..Len(job_threads) : job_threads[t].job = j}
QueuedPosts(j) == {k \in 1..Len(posts) : posts[k].job = j /\ posts[k].answer = "queued"}
NotificationsOf(j) == {n \in 1..Len(notifications) : notifications[n].job = j}
EverRemoved(j) == \E r \in removed_jobs : r.job = j

\* C26: for a job_id that cleanup has not removed, at most one POST was
\* answered 'queued' and at most one generation thread was started
C26_OneThreadPerJob ==
  \A j \in JobIds :
    ~EverRemoved(j) =>
      /\ Cardinality(QueuedPosts(j)) <= 1
      /\ Cardinality(ThreadsOf(j)) <= 1

\* the changes of status of an entry of active_jobs that the claim allows
AllowedStatusSteps ==
  {<<"generating", "completed">>, <<"completed", "uploaded">>, <<"generating", "failed">>}

\* C27 (its safety part): the status of a job only moves generating ->
\* completed -> uploaded or generating -> failed, an entry is created in status
\* generating, and notify_completion is invoked at most once per job, when the
\* job has a final status
C27_StatusOrderAndOneNotification ==
  [][\A j \in JobIds :
       /\ (j \in DOMAIN active_jobs /\ j \in DOMAIN active_jobs'
             /\ active_jobs'[j].status # active_jobs[j].status)
            => <<active_jobs[j].status, active_jobs'[j].status>> \in AllowedStatusSteps
       /\ (j \notin DOMAIN active_jobs /\ j \in DOMAIN active_jobs')
            => active_jobs'[j].status = "generating"
       /\ Cardinality({n \in 1..Len(notifications') : notifications'[n].job = j}) <= 1
       /\ \A n \in 1..Len(notifications') :
            notifications'[n].status \in FinalStatuses]_vars

C28_ExecutedOnceAndReported ==
  /\ (poll_pc = "sleep" /\ command_data # None)
       => /\ executions = 1
          /\ Len(sends) = 1
          /\ sends[1].command_id = command_data.command_id
  /\ executions <= 1
  /\ Len(sends) <= 1
  /\ poll_pc = "stopped" => loop_end = "KeyboardInterrupt"

\* the headers that are exactly 'Bearer ' followed by the configured key
Authorized(auth_header) == auth_header = Bearer \o API_KEY

\* C29: a request whose Authorization header is not exactly 'Bearer ' followed
\* by the API key is answered 401; its body is not read, no thread is started,
\* no command runs and get_status, get_logs, get_stats are not called
C29_UnauthorizedRunsNothing ==
  (pc \in {"request", "answered", "executed"} /\ ~Authorized(request.authorization))
    => /\ response \in {"", "401"}
       /\ pc # "executed"
       /\ ~body_read
       /\ started = << >>
       /\ invoked = {}

\* a POST to /api/execute whose header is 'Bearer ' followed by the key and
\* one more character has been answered 401
C29_Witness ==
  /\ pc = "answered"
  /\ request.handler = "handle_execute"
  /\ request.authorization = (Bearer \o API_KEY) \o <<"x">>
  /\ response = "401"
====
